---- MODULE Spec2Model ----
(***************************************************************************)
(* A model of tskit's combinatorics module (python/tskit/combinatorics.py): *)
(* ranking and unranking of unordered, leaf-labelled trees, the integer    *)
(* combinatorics it rests on, and the ascending-partition generator.       *)
(*                                                                         *)
(* Python lists are sequences (index i of Python is index i + 1 here),     *)
(* Python's None is the integer None == -1 (ranks and labels are >= 0),    *)
(* and a RankTree object is a record with the object's fields.             *)
(***************************************************************************)
EXTENDS Integers, Sequences, FiniteSets, TLC

VARIABLES
    pc,      \* position of the caller: "call" before the operation, later values after
    call,    \* the operation's inputs
    ret,     \* what the operations have returned so far
    gen      \* the frame (a, k) of the suspended rule_asc generator

vars == <<pc, call, ret, gen>>

(***************************************************************************)
(* Bounds of the model.                                                    *)
(***************************************************************************)
MaxCombN == 10
MaxWrN == 6
MaxPartN == 10
\* the largest n of all_unlabelled_trees(n) and num_shapes(n)
MaxShapeN == 10
\* the largest number of leaves of the trees whose ranks are all enumerated
MaxLeaves == 5

(***************************************************************************)
(* Python built-ins.                                                       *)
(***************************************************************************)
None == -1

Min(a, b) == IF a <= b THEN a ELSE b

\* range(n)
Range(n) == [i \in 1..n |-> i - 1]

\* s[lo:] for 0 <= lo
SliceFrom(s, lo) == SubSeq(s, lo + 1, Len(s))

\* s[:hi] for 0 <= hi
SliceTo(s, hi) == SubSeq(s, 1, Min(hi, Len(s)))

\* s.index(x): 0-based position of the first occurrence
RECURSIVE IndexFrom(_, _, _)
IndexFrom(s, x, i) ==
    IF i > Len(s) THEN None
    ELSE IF s[i] = x THEN i - 1
    ELSE IndexFrom(s, x, i + 1)

Index(s, x) == IndexFrom(s, x, 1)

RECURSIVE SumSeq(_)
SumSeq(s) ==
    IF Len(s) = 0 THEN 0
    ELSE IF Len(s) = 1 THEN s[1]
    ELSE LET mid == Len(s) \div 2
         IN  SumSeq(SubSeq(s, 1, mid)) + SumSeq(SubSeq(s, mid + 1, Len(s)))

RECURSIVE ConcatRange(_, _, _)
\* ss[lo] + ... + ss[hi], halving the range
ConcatRange(ss, lo, hi) ==
    IF lo > hi THEN <<>>
    ELSE IF lo = hi THEN ss[lo] \o <<>>
    ELSE LET mid == (lo + hi) \div 2
         IN  ConcatRange(ss, lo, mid) \o ConcatRange(ss, mid + 1, hi)

\* the concatenation of a list of lists
Concat(ss) == ConcatRange(ss, 1, Len(ss))

RECURSIVE Pow(_, _)
Pow(b, e) == IF e <= 0 THEN 1 ELSE b * Pow(b, e - 1)

Elems(s) == {s[i] : i \in 1..Len(s)}

RECURSIVE LexLessFrom(_, _, _)
LexLessFrom(a, b, i) ==
    IF i > Len(a) THEN i <= Len(b)
    ELSE IF i > Len(b) THEN FALSE
    ELSE IF a[i] = b[i] THEN LexLessFrom(a, b, i + 1)
    ELSE a[i] < b[i]

\* Python's list order, a < b: the first difference decides, a proper prefix is smaller
LexLess(a, b) == LexLessFrom(a, b, 1)

(***************************************************************************)
(* Helpers of the module.                                                  *)
(***************************************************************************)
\* set_minus removing nothing
set_minus_keeps_all(arr, subset) == SelectSeq(arr, LAMBDA x : TRUE)

set_minus(arr, subset) == SelectSeq(arr, LAMBDA x : x \notin Elems(subset))

RECURSIVE group_by_loop(_, _, _, _, _)
\* the loop of group_by; start is the index of curr_group[0] in values
group_by_loop(values, keys, i, groups, start) ==
    IF i > Len(values)
    THEN IF start < i THEN Append(groups, SubSeq(values, start, i - 1)) ELSE groups
    ELSE IF start = i \/ keys[i] = keys[start]
         THEN group_by_loop(values, keys, i + 1, groups, start)
         ELSE group_by_loop(values, keys, i + 1,
                            Append(groups, SubSeq(values, start, i - 1)), i)

\* group_by(values, equal), for the predicates the module passes: each is
\* equal(x, y) iff keys agree, keys[i] being the key of values[i]
group_by(values, keys) == group_by_loop(values, keys, 1, <<>>, 1)

group_partition(part) == group_by(part, part)

(***************************************************************************)
(* class Combination                                                       *)
(***************************************************************************)
RECURSIVE comb_loop(_, _, _, _)
comb_loop(n, k, i, res) ==
    IF i > k THEN res
    ELSE comb_loop(n, k, i + 1, (res * (n - k + i)) \div i)

comb(n, k) == LET kk == Min(k, n - k) IN comb_loop(n, kk, 1, 1)

comb_with_replacement(n, k) == comb(n + k - 1, k)

RECURSIVE from_range_rank_skips_k(_, _)
\* from_range_rank counting comb(n - 1, k) for the combinations that start lower
from_range_rank_skips_k(combination, n) ==
    LET k == Len(combination) IN
    IF k = 0 \/ k = n THEN 0
    ELSE LET j == combination[1]
             shifted == [i \in 1..k |-> combination[i] - 1]
         IN  IF j = 0 THEN from_range_rank_skips_k(Tail(shifted), n - 1)
             ELSE comb(n - 1, k) + from_range_rank_skips_k(shifted, n - 1)

RECURSIVE from_range_rank(_, _)
from_range_rank(combination, n) ==
    LET k == Len(combination) IN
    IF k = 0 \/ k = n THEN 0
    ELSE LET j == combination[1]
             shifted == [i \in 1..k |-> combination[i] - 1]
         IN  IF j = 0 THEN from_range_rank(Tail(shifted), n - 1)
             ELSE comb(n - 1, k - 1) + from_range_rank(shifted, n - 1)

Combination_rank(combination, elements) ==
    LET indices == [i \in 1..Len(combination) |-> Index(elements, combination[i])]
    IN  from_range_rank(indices, Len(elements))

RECURSIVE Combination_unrank(_, _, _)
Combination_unrank(rank, elements, k) ==
    LET n == Len(elements) IN
    IF k = 0 THEN <<>>
    ELSE LET n_rest_combs == comb(n - 1, k - 1) IN
         IF rank < n_rest_combs
         THEN SliceTo(elements, 1) \o Combination_unrank(rank, SliceFrom(elements, 1), k - 1)
         ELSE Combination_unrank(rank - n_rest_combs, SliceFrom(elements, 1), k)

RECURSIVE wr_preceding(_, _, _, _)
\* the loop of with_replacement_rank: sum of comb_with_replacement(n - i, k - 1), i in range(j)
wr_preceding(n, k, j, i) ==
    IF i >= j THEN 0
    ELSE comb_with_replacement(n - i, k - 1) + wr_preceding(n, k, j, i + 1)

RECURSIVE with_replacement_rank(_, _)
with_replacement_rank(combination, n) ==
    LET k == Len(combination) IN
    IF k = 0 THEN 0
    ELSE LET j == combination[1] IN
         IF k = 1 THEN j
         ELSE IF j = 0 THEN with_replacement_rank(Tail(combination), n)
         ELSE LET rest == [i \in 1..(k - 1) |-> combination[i + 1] - j]
              IN  wr_preceding(n, k, j, 0) + with_replacement_rank(rest, n - j)

RECURSIVE wr_skip_strict(_, _, _, _)
\* wr_skip with `while rank > preceding`
wr_skip_strict(rank, n, k, i) ==
    LET preceding == comb_with_replacement(n - i, k - 1) IN
    IF rank > preceding THEN wr_skip_strict(rank - preceding, n, k, i + 1)
    ELSE <<rank, i>>

RECURSIVE wr_skip(_, _, _, _)
\* the while loop of with_replacement_unrank: <<rank, i>> when it exits
wr_skip(rank, n, k, i) ==
    LET preceding == comb_with_replacement(n - i, k - 1) IN
    IF rank >= preceding THEN wr_skip(rank - preceding, n, k, i + 1)
    ELSE <<rank, i>>

RECURSIVE with_replacement_unrank(_, _, _)
with_replacement_unrank(rank, n, k) ==
    IF k = 0 THEN <<>>
    ELSE LET out == wr_skip(rank, n, k, 0)
             i == out[2]
             rest == with_replacement_unrank(out[1], n - i, k - 1)
         IN  <<i>> \o [x \in 1..Len(rest) |-> rest[x] + i]

(***************************************************************************)
(* partition / rule_asc.  A frame of the generator is [a, k]: a is the     *)
(* list a of n + 1 integers, k the index.  rule_asc_resume runs the body   *)
(* of `while k != 0` once, up to the yield or the return.                  *)
(***************************************************************************)
RECURSIVE rule_asc_inner_strict(_, _, _, _)
\* rule_asc_inner with `while x < y`
rule_asc_inner_strict(a, k, x, y) ==
    IF x < y THEN rule_asc_inner_strict([a EXCEPT ![k + 1] = x], k + 1, x, y - x)
    ELSE [a |-> a, k |-> k, y |-> y]

RECURSIVE rule_asc_inner(_, _, _, _)
\* while x <= y: a[k] = x; y -= x; k += 1
rule_asc_inner(a, k, x, y) ==
    IF x <= y THEN rule_asc_inner([a EXCEPT ![k + 1] = x], k + 1, x, y - x)
    ELSE [a |-> a, k |-> k, y |-> y]

\* a = [0 for i in range(n + 1)]; k = 1; a[1] = n
rule_asc_start(n) == [a |-> <<0, n>> \o [i \in 1..(n - 1) |-> 0], k |-> 1]

\* one resumption of a frame with k # 0: the new frame, and the list yielded
\* (returned is TRUE when the generator returns instead of yielding)
rule_asc_resume(f) ==
    LET x == f.a[f.k] + 1
        y == f.a[f.k + 1] - 1
        \* w is the state after the inner loop: a[k] = x + y
        after(w) ==
            LET a2 == [w.a EXCEPT ![w.k + 1] = x + w.y]
            IN  [a |-> a2, k |-> w.k, returned |-> (w.k = 0),
                 yield |-> SubSeq(a2, 1, w.k + 1)]
    IN  after(rule_asc_inner(f.a, f.k - 1, x, y))

RECURSIVE rule_asc_run(_, _)
\* the frame once the generator has been resumed `count` times from the frame
\* f, or has left the loop before that, and the lists it yielded on the way
rule_asc_run(f, count) ==
    IF f.k = 0 THEN [a |-> f.a, k |-> f.k, yielded |-> <<>>]
    ELSE IF count = 1
    THEN LET resumed(r) ==
                 [a |-> r.a, k |-> r.k,
                  yielded |-> IF r.returned THEN <<>> ELSE <<r.yield>>]
         IN  resumed(rule_asc_resume(f))
    ELSE LET joined(h, t) == [a |-> t.a, k |-> t.k, yielded |-> h.yielded \o t.yielded]
             then(h) == joined(h, rule_asc_run(h, count - (count \div 2)))
         IN  then(rule_asc_run(f, count \div 2))

RECURSIVE rule_asc_all(_, _)
\* everything the generator yields from the frame f on, the loop being run
\* `count` resumptions at a time
rule_asc_all(f, count) ==
    LET more(r) ==
            IF r.k = 0 THEN r.yielded
            ELSE r.yielded \o rule_asc_all(r, 2 * count)
    IN  more(rule_asc_run(f, count))

\* list(partition(n))
partition(n) == IF n > 0 THEN rule_asc_all(rule_asc_start(n), 1) ELSE <<>>

(***************************************************************************)
(* Exceptions.  An operation that raises returns a record with the field   *)
(* `error`; every operation that uses its result returns that record too.  *)
(***************************************************************************)
AssertionError == [error |-> "AssertionError"]
IndexError == [error |-> "IndexError"]
ValueError == [error |-> "ValueError"]

\* whether the record v is an exception
IsError(v) == "error" \in DOMAIN v

\* whether a list of records holds an exception, and the first one
AnyError(vs) == \E i \in 1..Len(vs) : IsError(vs[i])
FirstError(vs) == vs[CHOOSE i \in 1..Len(vs) : IsError(vs[i]) /\ \A j \in 1..(i - 1) : ~IsError(vs[j])]

(***************************************************************************)
(* heapq.merge of sorted lists: the smallest head first, the               *)
(* earlier list first among equal heads.                                   *)
(***************************************************************************)
RECURSIVE heapq_merge(_)
heapq_merge(lists) ==
    LET nonempty == {i \in 1..Len(lists) : lists[i] # <<>>} IN
    IF nonempty = {} THEN <<>>
    ELSE LET i == CHOOSE i \in nonempty : \A j \in nonempty :
                      \/ lists[i][1] < lists[j][1]
                      \/ lists[i][1] = lists[j][1] /\ i <= j
         IN  <<lists[i][1]>> \o heapq_merge(SubSeq(lists, 1, i - 1) \o <<Tail(lists[i])>>
                                               \o SubSeq(lists, i + 1, Len(lists)))

\* [t.labels for t in trees] and [t.num_leaves for t in trees]
LabelsOf(trees) == [i \in 1..Len(trees) |-> trees[i].labels]

(***************************************************************************)
(* Counting shapes: num_shapes and num_tree_pairings.  num_shapes carries  *)
(* @lru_cache(): a call whose argument the cache holds returns the stored  *)
(* value and does not run the body.  `cache` is the list of the stored     *)
(* num_shapes(0), num_shapes(1), ..., which the body and what it calls     *)
(* read.                                                                   *)
(***************************************************************************)
RECURSIVE num_shapes_in(_, _)
RECURSIVE num_tree_pairings_loop(_, _, _, _)
RECURSIVE num_tree_pairings_loop_distinct(_, _, _, _)

\* num_tree_pairings_loop choosing the trees of a group without replacement
num_tree_pairings_loop_distinct(cache, groups, i, total) ==
    IF i > Len(groups) THEN total
    ELSE LET g == groups[i]
             k == g[1]
         IN  num_tree_pairings_loop_distinct(cache, groups, i + 1,
                 total * comb(num_shapes_in(cache, k), Len(g)))

\* for g in group_partition(part): total *= comb_with_replacement(num_shapes(g[0]), len(g))
num_tree_pairings_loop(cache, groups, i, total) ==
    IF i > Len(groups) THEN total
    ELSE LET g == groups[i]
             k == g[1]
         IN  num_tree_pairings_loop(cache, groups, i + 1,
                 total * comb_with_replacement(num_shapes_in(cache, k), Len(g)))

num_tree_pairings_in(cache, part) ==
    num_tree_pairings_loop(cache, group_partition(part), 1, 1)

\* sum(num_tree_pairings(part) for part in partition(n))
num_shapes_sum(cache, parts) ==
    SumSeq([i \in 1..Len(parts) |-> num_tree_pairings_in(cache, parts[i])])

\* num_shapes with the base case `if n <= 2`
num_shapes_base_two(cache, n) ==
    IF n <= 2 THEN n
    ELSE IF n < Len(cache) THEN cache[n + 1]
    ELSE num_shapes_sum(cache, partition(n))

\* num_shapes(n) called with the cache holding `cache`
num_shapes_in(cache, n) ==
    IF 0 <= n /\ n < Len(cache) THEN cache[n + 1]
    ELSE IF n <= 1 THEN n
    ELSE num_shapes_sum(cache, partition(n))

\* the cache after a call of num_shapes(n) that it does not hold yet
lru_cache_store(cache, n) == Append(cache, num_shapes_in(cache, n))

RECURSIVE lru_cache_upto(_)
\* what the cache holds once num_shapes(n) has returned: computing
\* num_shapes(k) calls num_shapes on every smaller positive argument first
lru_cache_upto(n) ==
    lru_cache_store(IF n = 0 THEN <<>> ELSE lru_cache_upto(n - 1), n)

lru_cache == lru_cache_upto(MaxShapeN + 1)

num_shapes(n) == num_shapes_in(lru_cache, n)

num_tree_pairings(part) == num_tree_pairings_in(lru_cache, part)

(***************************************************************************)
(* class RankTree.  A RankTree is the record of its fields: children,      *)
(* num_leaves, labels, shape_rank (_shape_rank), label_rank (_label_rank). *)
(***************************************************************************)
is_leaf(self) == Len(self.children) = 0

leaf_partition(self) == [i \in 1..Len(self.children) |-> self.children[i].num_leaves]

min_label(self) == self.labels[1]

\* RankTree.canonical_order(c)
canonical_order(c) == <<c.num_leaves, c.shape_rank, min_label(c)>>

group_children_by_num_leaves(self) ==
    group_by(self.children, leaf_partition(self))

group_children_by_shape(self) ==
    group_by(self.children,
             [i \in 1..Len(self.children) |->
                 <<self.children[i].num_leaves, self.children[i].shape_rank>>])

RECURSIVE preceding_partitions_inclusive(_, _, _, _)
\* preceding_partitions counting the trees of part itself before the break
preceding_partitions_inclusive(parts, i, part, total) ==
    IF i > Len(parts) THEN total
    ELSE IF parts[i] = part THEN total + num_tree_pairings(parts[i])
    ELSE preceding_partitions_inclusive(parts, i + 1, part,
                                        total + num_tree_pairings(parts[i]))

RECURSIVE preceding_partitions(_, _, _, _)
\* for prev_part in partition(n): if prev_part == part: break; total += num_tree_pairings(prev_part)
preceding_partitions(parts, i, part, total) ==
    IF i > Len(parts) THEN total
    ELSE IF parts[i] = part THEN total
    ELSE preceding_partitions(parts, i + 1, part, total + num_tree_pairings(parts[i]))

RECURSIVE shape_rank_groups(_, _, _, _, _)
\* the loop of compute_shape_rank over child_groups
shape_rank_groups(child_groups, i, part, next_child_idx, total) ==
    IF i > Len(child_groups) THEN total
    ELSE LET g == child_groups[i]
             idx == next_child_idx + Len(g)
             k == g[1].num_leaves
             child_ranks == [j \in 1..Len(g) |-> g[j].shape_rank]
             rest_part == SliceFrom(part, idx)
             \* total += g_rank * total_rest
             added(g_rank, total_rest) == total + g_rank * total_rest
         IN  shape_rank_groups(child_groups, i + 1, part, idx,
                 added(with_replacement_rank(child_ranks, num_shapes(k)),
                       num_tree_pairings(rest_part)))

compute_shape_rank(self) ==
    LET part == leaf_partition(self)
    IN  shape_rank_groups(group_children_by_num_leaves(self), 1, part, 0,
                          preceding_partitions(partition(self.num_leaves), 1, part, 0))

\* RankTree(shape_rank, label_rank, children, label); children = <<>> stands for
\* children=None (no caller passes an empty list)
RankTree(shape_rank, label_rank, children, label) ==
    LET leaf == children = <<>>
        num_leaves == IF leaf THEN 1
                      ELSE SumSeq([i \in 1..Len(children) |-> children[i].num_leaves])
        labels == IF leaf THEN <<label>> ELSE heapq_merge(LabelsOf(children))
        self == [children |-> children, num_leaves |-> num_leaves, labels |-> labels]
    IN  [children |-> children,
         num_leaves |-> num_leaves,
         labels |-> labels,
         shape_rank |-> IF shape_rank # None THEN shape_rank ELSE compute_shape_rank(self),
         label_rank |-> label_rank]

\* RankTree(...) of the children that were built, or the first exception
\* raised while building them
RankTreeBuilt(shape_rank, label_rank, children, label) ==
    IF AnyError(children) THEN FirstError(children)
    ELSE RankTree(shape_rank, label_rank, children, label)

(***************************************************************************)
(* Counting labellings.                                                    *)
(***************************************************************************)
RECURSIVE num_assignments_loop_any_first(_, _, _)
\* num_assignments_loop choosing the k labels of each tree freely
num_assignments_loop_any_first(n, k, total) ==
    IF n <= 0 THEN total
    ELSE num_assignments_loop_any_first(n - k, k, total * comb(n, k))

RECURSIVE num_assignments_loop(_, _, _)
\* for n in range(k * len(g), 0, -k): total *= comb(n - 1, k - 1)
num_assignments_loop(n, k, total) ==
    IF n <= 0 THEN total
    ELSE num_assignments_loop(n - k, k, total * comb(n - 1, k - 1))

num_assignments_in_group(g) ==
    IF Len(g) = 0 THEN 1
    ELSE LET k == g[1].num_leaves IN num_assignments_loop(k * Len(g), k, 1)

RECURSIVE RankTree_num_labellings(_)
RECURSIVE num_group_labellings(_)
RECURSIVE num_list_of_group_labellings(_)
RECURSIVE num_list_loop(_, _, _, _)

num_group_labellings(g) ==
    num_assignments_in_group(g) * Pow(RankTree_num_labellings(g[1]), Len(g))

RECURSIVE num_list_loop_same_pool(_, _, _, _)
\* num_list_loop without `remaining_leaves -= x * k`
num_list_loop_same_pool(groups, i, remaining_leaves, total) ==
    IF i > Len(groups) THEN total
    ELSE LET g == groups[i]
             k == g[1].num_leaves
             x == Len(g)
             num_label_choices == comb(remaining_leaves, x * k)
         IN  num_list_loop_same_pool(groups, i + 1, remaining_leaves,
                                     total * (num_label_choices * num_group_labellings(g)))

\* the loop of num_list_of_group_labellings
num_list_loop(groups, i, remaining_leaves, total) ==
    IF i > Len(groups) THEN total
    ELSE LET g == groups[i]
             k == g[1].num_leaves
             x == Len(g)
             num_label_choices == comb(remaining_leaves, x * k)
         IN  num_list_loop(groups, i + 1, remaining_leaves - x * k,
                           total * (num_label_choices * num_group_labellings(g)))

num_list_of_group_labellings(groups) ==
    LET remaining_leaves ==
            SumSeq([i \in 1..Len(groups) |-> Len(groups[i]) * groups[i][1].num_leaves])
    IN  num_list_loop(groups, 1, remaining_leaves, 1)

\* RankTree.num_labellings
RankTree_num_labellings(self) ==
    IF is_leaf(self) THEN 1
    ELSE num_list_of_group_labellings(group_children_by_shape(self))

(***************************************************************************)
(* Ranking a labelling: group_rank and RankTree.add_label_ranks.           *)
(***************************************************************************)
RECURSIVE num_rest_combs_loop(_, _, _, _, _)
\* for j in range(curr_trees - 1): num_rest_combs *= comb(remaining_leaves - j * k - 1, k - 1)
num_rest_combs_loop(j, curr_trees, remaining_leaves, k, num_rest_combs) ==
    IF j >= curr_trees - 1 THEN num_rest_combs
    ELSE num_rest_combs_loop(j + 1, curr_trees, remaining_leaves, k,
                             num_rest_combs * comb(remaining_leaves - j * k - 1, k - 1))

RECURSIVE group_rank_loop(_, _, _, _, _, _, _)

\* group_rank_loop leaving out the label rank of the tree itself
group_rank_loop_without_tree_rank(g, i, k, n, y, all_labels, rank) ==
    IF i >= Len(g) THEN rank
    ELSE LET t == g[i + 1]
             u_labels == t.labels
             curr_trees == Len(g) - i
             comb_rank == Combination_rank(u_labels, all_labels)
             remaining_leaves == n - (i + 1) * k
             num_rest_combs == num_rest_combs_loop(0, curr_trees, remaining_leaves, k, 1)
             preceding_combs == comb_rank * num_rest_combs * Pow(y, curr_trees)
         IN  group_rank_loop(g, i + 1, k, n, y, set_minus(all_labels, u_labels),
                             rank + preceding_combs)

\* the loop of group_rank; i is the 0-based index of t in g
group_rank_loop(g, i, k, n, y, all_labels, rank) ==
    IF i >= Len(g) THEN rank
    ELSE LET t == g[i + 1]
             u_labels == t.labels
             curr_trees == Len(g) - i
             comb_rank == Combination_rank(u_labels, all_labels)
             remaining_leaves == n - (i + 1) * k
             num_rest_combs == num_rest_combs_loop(0, curr_trees, remaining_leaves, k, 1)
             preceding_combs == comb_rank * num_rest_combs * Pow(y, curr_trees)
             curr_comb == t.label_rank * num_rest_combs * Pow(y, curr_trees - 1)
         IN  group_rank_loop(g, i + 1, k, n, y, set_minus(all_labels, u_labels),
                             rank + (preceding_combs + curr_comb))

group_rank(g) ==
    LET k == g[1].num_leaves
        n == Len(g) * k
        all_labels == heapq_merge(LabelsOf(g))
    IN  group_rank_loop(g, 0, k, n, RankTree_num_labellings(g[1]), all_labels, 0)

RECURSIVE label_rank_loop_unscaled(_, _, _, _)
\* label_rank_loop with rank_from_g = group_rank(g)
label_rank_loop_unscaled(child_groups, i, all_labels, total) ==
    IF i >= Len(child_groups) THEN total
    ELSE LET g == child_groups[i + 1]
             rest_groups == SliceFrom(child_groups, i + 1)
             g_labels == heapq_merge(LabelsOf(g))
             comb_rank == Combination_rank(g_labels, all_labels)
             \* total += preceding_comb + rank_from_g
             added(num_rest_labellings, num_g_labellings, group_rank_of_g) ==
                 total + (comb_rank * num_g_labellings * num_rest_labellings
                          + group_rank_of_g)
         IN  label_rank_loop_unscaled(child_groups, i + 1, set_minus(all_labels, g_labels),
                 added(num_list_of_group_labellings(rest_groups),
                       num_group_labellings(g), group_rank(g)))

RECURSIVE label_rank_loop(_, _, _, _)
\* the loop of add_label_ranks over child_groups; i is the 0-based index of g
label_rank_loop(child_groups, i, all_labels, total) ==
    IF i >= Len(child_groups) THEN total
    ELSE LET g == child_groups[i + 1]
             rest_groups == SliceFrom(child_groups, i + 1)
             g_labels == heapq_merge(LabelsOf(g))
             comb_rank == Combination_rank(g_labels, all_labels)
             \* total += preceding_comb + rank_from_g
             added(num_rest_labellings, num_g_labellings, group_rank_of_g) ==
                 total + (comb_rank * num_g_labellings * num_rest_labellings
                          + group_rank_of_g * num_rest_labellings)
         IN  label_rank_loop(child_groups, i + 1, set_minus(all_labels, g_labels),
                 added(num_list_of_group_labellings(rest_groups),
                       num_group_labellings(g), group_rank(g)))

RECURSIVE add_label_ranks(_)
\* RankTree.add_label_ranks: the tree with _label_rank set at every node
add_label_ranks(self) ==
    LET ranked == [self EXCEPT !.children =
                       [i \in 1..Len(self.children) |-> add_label_ranks(self.children[i])]]
    IN  [ranked EXCEPT !.label_rank =
            label_rank_loop(group_children_by_shape(ranked), 0, ranked.labels, 0)]

\* RankTree.label_rank: the tree after the call (ranks added when unset), and the value
RankTree_label_rank(self) ==
    LET returned(after) == [self |-> after, value |-> after.label_rank]
    IN  returned(IF self.label_rank = None THEN add_label_ranks(self) ELSE self)

\* RankTree.shape_rank
RankTree_shape_rank(self) == self.shape_rank

\* RankTree.rank: the tree after the call, and the pair returned
RankTree_rank(self) ==
    LET returned(r) == [self |-> r.self, value |-> <<RankTree_shape_rank(self), r.value>>]
    IN  returned(RankTree_label_rank(self))

(***************************************************************************)
(* Unranking a shape: children_shape_ranks and RankTree.shape_unrank.      *)
(***************************************************************************)
RECURSIVE find_partition(_, _, _, _)
\* the loop of children_shape_ranks over partition(n); found is FALSE for part = None
find_partition(parts, i, rank, num_prior_trees) ==
    IF i > Len(parts)
    THEN [found |-> FALSE, part |-> <<>>, num_prior_trees |-> num_prior_trees]
    ELSE LET counted(num_trees_with_part) ==
                 IF num_prior_trees + num_trees_with_part > rank
                 THEN [found |-> TRUE, part |-> parts[i], num_prior_trees |-> num_prior_trees]
                 ELSE find_partition(parts, i + 1, rank, num_prior_trees + num_trees_with_part)
         IN  counted(num_tree_pairings(parts[i]))

RECURSIVE child_ranks_loop(_, _, _, _, _, _)
\* the loop of children_shape_ranks over grouped_part
child_ranks_loop(grouped_part, i, part, next_child, rank, child_ranks) ==
    IF i > Len(grouped_part) THEN child_ranks
    ELSE LET g == grouped_part[i]
             next == next_child + Len(g)
             k == g[1]
             rest_children == SliceFrom(part, next)
             unranked(rest_num_pairings, S_k) ==
                 child_ranks_loop(grouped_part, i + 1, part, next, rank % rest_num_pairings,
                     child_ranks \o
                     with_replacement_unrank(rank \div rest_num_pairings, S_k, Len(g)))
         IN  unranked(num_tree_pairings(rest_children), num_shapes(k))

\* children_shape_ranks once the loop over partition(n) has ended with f
children_of_part(rank, f) ==
    IF ~f.found THEN AssertionError
    ELSE [part |-> f.part,
          child_ranks |-> child_ranks_loop(group_partition(f.part), 1, f.part, 0,
                                           rank - f.num_prior_trees, <<>>)]

children_shape_ranks(rank, n) ==
    IF ~(n > 1) THEN AssertionError
    ELSE IF ~(0 <= rank /\ rank < num_shapes(n)) THEN AssertionError
    ELSE children_of_part(rank, find_partition(partition(n), 1, rank, 0))

RECURSIVE RankTree_shape_unrank(_, _)
\* RankTree.shape_unrank giving the first child the shape of rank 0
RankTree_shape_unrank_first_child(shape_rank, n) ==
    IF n = 1
    THEN IF shape_rank # 0 THEN AssertionError ELSE RankTree(0, None, <<>>, None)
    ELSE LET unranked(r) ==
                 IF IsError(r) THEN <<r>>
                 ELSE [i \in 1..Min(Len(r.child_ranks), Len(r.part)) |->
                          RankTree_shape_unrank(IF i = 1 THEN 0 ELSE r.child_ranks[i],
                                                r.part[i])] \o <<>>
         IN  RankTreeBuilt(shape_rank, None,
                           unranked(children_shape_ranks(shape_rank, n)), None)

RankTree_shape_unrank(shape_rank, n) ==
    IF n = 1
    THEN IF shape_rank # 0 THEN AssertionError ELSE RankTree(0, None, <<>>, None)
    ELSE LET unranked(r) ==
                 IF IsError(r) THEN <<r>>
                 ELSE [i \in 1..Min(Len(r.child_ranks), Len(r.part)) |->
                          RankTree_shape_unrank(r.child_ranks[i], r.part[i])] \o <<>>
         IN  RankTreeBuilt(shape_rank, None,
                           unranked(children_shape_ranks(shape_rank, n)), None)

\* num_labellings(shape_rk, n) of the module
num_labellings(shape_rk, n) ==
    LET of_shape(t) == IF IsError(t) THEN t ELSE [value |-> RankTree_num_labellings(t)]
    IN  of_shape(RankTree_shape_unrank(shape_rk, n))

(***************************************************************************)
(* Unranking a labelling: group_label_ranks, children_label_ranks and      *)
(* RankTree.label_unrank.                                                  *)
(***************************************************************************)
RECURSIVE group_label_loop_max_first(_, _, _, _, _, _)
\* group_label_loop giving the first tree of the group the largest label
group_label_loop_max_first(child_group, i, rank, labels, child_labels, child_label_ranks) ==
    IF i >= Len(child_group)
    THEN [child_labels |-> child_labels, child_label_ranks |-> child_label_ranks]
    ELSE LET rank_tree == child_group[i + 1]
             k == rank_tree.num_leaves
             rest_trees == SliceFrom(child_group, i + 1)
             next(num_t_labellings, num_rest_assignments) ==
                 LET num_rest_labellings ==
                         num_rest_assignments * Pow(num_t_labellings, Len(rest_trees))
                     num_labellings_per_label_comb == num_t_labellings * num_rest_labellings
                     comb_rank == rank \div num_labellings_per_label_comb
                     rank_given_comb == rank % num_labellings_per_label_comb
                     t_rank == rank_given_comb \div num_rest_labellings
                     t_labels == Combination_unrank(comb_rank,
                                    SliceTo(labels, Len(labels) - 1), k - 1)
                                \o <<labels[Len(labels)]>>
                 IN  group_label_loop_max_first(child_group, i + 1, rank % num_rest_labellings,
                         set_minus(labels, t_labels),
                         Append(child_labels, t_labels),
                         Append(child_label_ranks, t_rank))
         IN  IF Len(labels) = 0 THEN IndexError
             ELSE next(RankTree_num_labellings(rank_tree),
                       num_assignments_in_group(rest_trees))

RECURSIVE group_label_loop(_, _, _, _, _, _)
\* the loop of group_label_ranks; i is the 0-based index of rank_tree
group_label_loop(child_group, i, rank, labels, child_labels, child_label_ranks) ==
    IF i >= Len(child_group)
    THEN [child_labels |-> child_labels, child_label_ranks |-> child_label_ranks]
    ELSE LET rank_tree == child_group[i + 1]
             k == rank_tree.num_leaves
             rest_trees == SliceFrom(child_group, i + 1)
             next(num_t_labellings, num_rest_assignments) ==
                 LET num_rest_labellings ==
                         num_rest_assignments * Pow(num_t_labellings, Len(rest_trees))
                     num_labellings_per_label_comb == num_t_labellings * num_rest_labellings
                     comb_rank == rank \div num_labellings_per_label_comb
                     rank_given_comb == rank % num_labellings_per_label_comb
                     t_rank == rank_given_comb \div num_rest_labellings
                     t_labels == <<labels[1]>> \o
                                Combination_unrank(comb_rank, SliceFrom(labels, 1), k - 1)
                 IN  group_label_loop(child_group, i + 1, rank % num_rest_labellings,
                         set_minus(labels, t_labels),
                         Append(child_labels, t_labels),
                         Append(child_label_ranks, t_rank))
         IN  IF Len(labels) = 0 THEN IndexError
             ELSE next(RankTree_num_labellings(rank_tree),
                       num_assignments_in_group(rest_trees))

\* group_label_ranks handing the label subsets to the trees in reverse order
group_label_ranks_reversed(rank, child_group, labels) ==
    LET reversed(r) ==
            IF IsError(r) THEN r
            ELSE [child_labels |-> [i \in 1..Len(r.child_labels) |->
                                       r.child_labels[Len(r.child_labels) + 1 - i]] \o <<>>,
                  child_label_ranks |-> r.child_label_ranks]
    IN  reversed(group_label_loop(child_group, 0, rank, labels, <<>>, <<>>))

group_label_ranks(rank, child_group, labels) ==
    group_label_loop(child_group, 0, rank, labels, <<>>, <<>>)

RECURSIVE children_label_loop(_, _, _, _, _, _)
\* the loop of children_label_ranks; i is the 0-based index of g
children_label_loop(child_groups, i, rank, labels, child_labels, child_label_ranks) ==
    IF i >= Len(child_groups)
    THEN [child_labels |-> child_labels, child_label_ranks |-> child_label_ranks]
    ELSE LET g == child_groups[i + 1]
             k == g[1].num_leaves
             g_num_leaves == k * Len(g)
             rest_groups == SliceFrom(child_groups, i + 1)
             next(num_g_labellings, num_rest_labellings) ==
                 LET num_labellings_per_label_comb == num_g_labellings * num_rest_labellings
                     comb_rank == rank \div num_labellings_per_label_comb
                     rank_given_label_comb == rank % num_labellings_per_label_comb
                     g_rank == rank_given_label_comb \div num_rest_labellings
                     g_labels == Combination_unrank(comb_rank, labels, g_num_leaves)
                     with_ranks(r) ==
                         IF IsError(r) THEN r
                         ELSE children_label_loop(child_groups, i + 1,
                                  rank % num_rest_labellings,
                                  set_minus(labels, g_labels),
                                  child_labels \o r.child_labels,
                                  child_label_ranks \o r.child_label_ranks)
                 IN  with_ranks(group_label_ranks(g_rank, g, g_labels))
         IN  next(num_group_labellings(g), num_list_of_group_labellings(rest_groups))

children_label_ranks(child_groups, rank, labels) ==
    children_label_loop(child_groups, 0, rank, labels, <<>>, <<>>)

RECURSIVE label_unrank_with(_, _, _)

\* label_unrank_with giving every child its first labelling
label_unrank_with_first(self, label_rank, labels) ==
    IF is_leaf(self)
    THEN IF label_rank # 0 \/ Len(labels) # 1 THEN AssertionError
         ELSE RankTree(None, label_rank, <<>>, labels[1])
    ELSE LET with_children(labelled_children) ==
                 IF AnyError(labelled_children) THEN FirstError(labelled_children)
                 ELSE RankTree(self.shape_rank, label_rank, labelled_children, None)
             with_ranks(r) ==
                 IF IsError(r) THEN r
                 ELSE with_children(
                          [i \in 1..Min(Len(self.children),
                                        Min(Len(r.child_label_ranks), Len(r.child_labels))) |->
                              label_unrank_with(self.children[i],
                                                0, r.child_labels[i])])
         IN  with_ranks(children_label_ranks(group_children_by_shape(self),
                                             label_rank, labels))

\* RankTree.label_unrank(self, label_rank, labels) with labels given
label_unrank_with(self, label_rank, labels) ==
    IF is_leaf(self)
    THEN IF label_rank # 0 \/ Len(labels) # 1 THEN AssertionError
         ELSE RankTree(None, label_rank, <<>>, labels[1])
    ELSE LET with_children(labelled_children) ==
                 IF AnyError(labelled_children) THEN FirstError(labelled_children)
                 ELSE RankTree(self.shape_rank, label_rank, labelled_children, None)
             with_ranks(r) ==
                 IF IsError(r) THEN r
                 ELSE with_children(
                          [i \in 1..Min(Len(self.children),
                                        Min(Len(r.child_label_ranks), Len(r.child_labels))) |->
                              label_unrank_with(self.children[i],
                                                r.child_label_ranks[i], r.child_labels[i])])
         IN  with_ranks(children_label_ranks(group_children_by_shape(self),
                                             label_rank, labels))

\* RankTree.label_unrank(self, label_rank): labels=None is list(range(self.num_leaves))
RankTree_label_unrank(self, label_rank) ==
    label_unrank_with(self, label_rank, Range(self.num_leaves))

\* RankTree.unrank(rank, num_leaves)
RankTree_unrank(rank, num_leaves) ==
    LET labelled(unlabelled) ==
            IF IsError(unlabelled) THEN unlabelled
            ELSE RankTree_label_unrank(unlabelled, rank[2])
    IN  labelled(RankTree_shape_unrank(rank[1], num_leaves))

\* RankTree.is_symmetrical
is_symmetrical(self) ==
    IF is_leaf(self) THEN TRUE
    ELSE LET even_split_leaves == Cardinality(Elems(leaf_partition(self))) = 1
             all_same_rank ==
                 Cardinality({self.children[i].shape_rank : i \in 1..Len(self.children)}) = 1
         IN  even_split_leaves /\ all_same_rank

(***************************************************************************)
(* Comparing trees.                                                        *)
(***************************************************************************)
RECURSIVE equal(_, _)
equal(self, other) ==
    IF is_leaf(self) /\ is_leaf(other) THEN self.labels[1] = other.labels[1]
    ELSE IF Len(self.children) # Len(other.children) THEN FALSE
    ELSE \A i \in 1..Len(self.children) : equal(self.children[i], other.children[i])

RECURSIVE shape_equal(_, _)
shape_equal(self, other) ==
    IF is_leaf(self) /\ is_leaf(other) THEN TRUE
    ELSE IF Len(self.children) # Len(other.children) THEN FALSE
    ELSE \A i \in 1..Len(self.children) : shape_equal(self.children[i], other.children[i])

RECURSIVE is_canonical(_)
\* tuples compare as lists do; two None labels are equal and never compared by <
is_canonical(self) ==
    IF is_leaf(self) THEN TRUE
    ELSE /\ \A i \in 1..(Len(self.children) - 1) :
               ~LexLess(canonical_order(self.children[i + 1]),
                        canonical_order(self.children[i]))
         /\ \A i \in 1..Len(self.children) : is_canonical(self.children[i])

(***************************************************************************)
(* The caller.  An operation is called with the inputs in `call`; what it  *)
(* returns is recorded in `ret`.                                           *)
(***************************************************************************)
NoRet == [op |-> "none"]
NoGen == [a |-> <<>>, k |-> 0]

(***************************************************************************)
(* Combinations: the size-k combinations of range(n), and the size-k       *)
(* combinations with replacement, as the sets the lexicographic index is   *)
(* counted in.                                                             *)
(***************************************************************************)
RECURSIVE AscendingSeqs(_, _, _, _)
\* the lists of k integers of lo..(n - 1) in which each element is at least
\* gap more than the one before: gap 1 for combinations, 0 with replacement
AscendingSeqs(k, lo, n, gap) ==
    IF k = 0 THEN {<<>>}
    ELSE UNION {{<<f>> \o r : r \in AscendingSeqs(k - 1, f + gap, n, gap)} : f \in lo..(n - 1)}

CombTable == [n \in 0..MaxCombN |-> [k \in 0..n |-> AscendingSeqs(k, 0, n, 1)]]

WrTable == [n \in 0..MaxWrN |-> [k \in 0..n |-> AscendingSeqs(k, 0, n, 0)]]

\* the 0-based index of c in the lexicographic order of the set all
LexIndex(c, all) == Cardinality({d \in all : LexLess(d, c)})

CombInputs ==
    UNION {UNION {{[op |-> "Combination", n |-> n, k |-> k, c |-> c,
                    idx |-> LexIndex(c, CombTable[n][k])] : c \in CombTable[n][k]}
                  : k \in 0..(n - 1)} : n \in 0..MaxCombN}

WrInputs ==
    UNION {UNION {{[op |-> "with_replacement", n |-> n, k |-> k, c |-> c,
                    idx |-> LexIndex(c, WrTable[n][k])] : c \in WrTable[n][k]}
                  : k \in 0..(n - 1)} : n \in 0..MaxWrN}

InitComb ==
    /\ pc = "call"
    /\ call \in CombInputs \cup WrInputs
    /\ ret = NoRet
    /\ gen = NoGen

\* Combination.rank(c, range(n))
CombinationRank ==
    /\ pc = "call"
    /\ call.op = "Combination"
    /\ ret' = [rank |-> Combination_rank(call.c, Range(call.n))]
    /\ pc' = "ranked"
    /\ UNCHANGED <<call, gen>>

\* Combination.unrank(idx, range(n), k)
CombinationUnrank ==
    /\ pc = "ranked"
    /\ call.op = "Combination"
    /\ ret' = [rank |-> ret.rank,
               comb |-> Combination_unrank(call.idx, Range(call.n), call.k)]
    /\ pc' = "done"
    /\ UNCHANGED <<call, gen>>

\* Combination.with_replacement_rank(c, n)
WithReplacementRank ==
    /\ pc = "call"
    /\ call.op = "with_replacement"
    /\ ret' = [rank |-> with_replacement_rank(call.c, call.n)]
    /\ pc' = "ranked"
    /\ UNCHANGED <<call, gen>>

\* Combination.with_replacement_unrank(idx, n, k)
WithReplacementUnrank ==
    /\ pc = "ranked"
    /\ call.op = "with_replacement"
    /\ ret' = [rank |-> ret.rank,
               comb |-> with_replacement_unrank(call.idx, call.n, call.k)]
    /\ pc' = "done"
    /\ UNCHANGED <<call, gen>>

NextComb ==
    \/ CombinationRank
    \/ CombinationUnrank
    \/ WithReplacementRank
    \/ WithReplacementUnrank

SpecComb == InitComb /\ [][NextComb]_vars

(***************************************************************************)
(* partition(n), consumed by a caller that collects what it yields.        *)
(***************************************************************************)
InitPart ==
    /\ pc = "call"
    /\ call \in {[op |-> "partition", n |-> n] : n \in 0..MaxPartN}
    /\ ret = NoRet
    /\ gen = NoGen

\* partition(n): `if n > 0: yield from rule_asc(n)`, up to the first loop test
PartitionCall ==
    /\ pc = "call"
    /\ call.op = "partition"
    /\ ret' = [yielded |-> <<>>]
    /\ IF call.n > 0
       THEN gen' = rule_asc_start(call.n) /\ pc' = "running"
       ELSE gen' = gen /\ pc' = "exhausted"
    /\ UNCHANGED call

\* next() on the generator: `while k != 0` and its body, to the yield or the return
PartitionNext ==
    /\ pc = "running"
    /\ IF gen.k = 0
       THEN pc' = "exhausted" /\ UNCHANGED <<ret, gen>>
       ELSE LET r == rule_asc_resume(gen) IN
            /\ gen' = [a |-> r.a, k |-> r.k]
            /\ IF r.returned
               THEN pc' = "exhausted" /\ ret' = ret
               ELSE pc' = "running" /\ ret' = [yielded |-> Append(ret.yielded, r.yield)]
    /\ UNCHANGED call

NextPart == PartitionCall \/ PartitionNext

SpecPart == InitPart /\ [][NextPart]_vars

\* the caller keeps asking for the next element until the generator is exhausted
FairSpecPart == SpecPart /\ WF_vars(NextPart)

(***************************************************************************)
(* Properties of the combinations.                                         *)
(***************************************************************************)

\* C6: for every n <= MaxCombN, k < n and size-k combination c of range(n),
\* Combination.rank(c, range(n)) is the 0-based index of c in the
\* lexicographic order of the size-k combinations, and Combination.unrank of
\* that index, range(n) and k is c.
C6_CombinationRankUnrank ==
    call.op = "Combination" =>
        /\ pc \in {"ranked", "done"} => ret.rank = call.idx
        /\ pc = "done" => ret.comb = call.c

C6_Witness ==
    /\ pc = "done"
    /\ call.op = "Combination"
    /\ call.n = MaxCombN
    /\ call.c = <<1, 4, 5, 9>>
    /\ ret.rank = call.idx
    /\ ret.rank > 0
    /\ ret.comb = call.c

\* C7: for every n <= MaxWrN, k < n and non-decreasing size-k multiset c over
\* 0..n-1, Combination.with_replacement_rank(c, n) is the 0-based index of c
\* in the lexicographic order of the size-k combinations with replacement,
\* and Combination.with_replacement_unrank of that index, n and k is c.
C7_WithReplacementRankUnrank ==
    call.op = "with_replacement" =>
        /\ pc \in {"ranked", "done"} => ret.rank = call.idx
        /\ pc = "done" => ret.comb = call.c

C7_Witness ==
    /\ pc = "done"
    /\ call.op = "with_replacement"
    /\ call.n = MaxWrN
    /\ call.c = <<1, 1, 3, 5, 5>>
    /\ ret.rank = call.idx
    /\ ret.rank > 0
    /\ ret.comb = call.c

(***************************************************************************)
(* Properties of partition.                                                *)
(***************************************************************************)
RECURSIVE AscendingSums(_, _)
\* the non-decreasing lists of integers >= lo that sum to n
AscendingSums(n, lo) ==
    IF n = 0 THEN {<<>>}
    ELSE UNION {{<<f>> \o r : r \in AscendingSums(n - f, f)} : f \in lo..n}

\* the partitions of n into at least 2 positive parts, as non-decreasing lists
PartitionTable ==
    [n \in 0..MaxPartN |-> {p \in AscendingSums(n, 1) : Len(p) >= 2}]

PartitionYields ==
    (call.op = "partition" /\ pc \in {"running", "exhausted"}) =>
        LET ys == ret.yielded IN
        /\ \A i \in 1..Len(ys) : ys[i] \in PartitionTable[call.n]
        /\ \A i \in 1..Len(ys) : ys[i] # <<call.n>>
        /\ \A i \in 1..(Len(ys) - 1) : LexLess(ys[i], ys[i + 1])
        /\ pc = "exhausted" => \A p \in PartitionTable[call.n] : p \in Elems(ys)
        /\ (pc = "exhausted" /\ call.n <= 1) => ys = <<>>

\* C8: partition(n) terminates; what it yields are partitions of n into at
\* least 2 positive parts, each a non-decreasing list, never [n], in strictly
\* increasing lexicographic order (so none twice), and when it is exhausted
\* every such partition has been yielded; partition(0) and partition(1)
\* yield nothing.
C8_Partition == [](PartitionYields) /\ <>(pc = "exhausted")

C8_Witness ==
    /\ pc = "exhausted"
    /\ call.op = "partition"
    /\ call.n = 4
    /\ ret.yielded = <<<<1, 1, 1, 1>>, <<1, 1, 2>>, <<1, 3>>, <<2, 2>>>>

(***************************************************************************)
(* The reference enumeration of the tests.  itertools.combinations and     *)
(* itertools.combinations_with_replacement yield the tuples of positions   *)
(* in lexicographic order; a generator is the list of what it yields.      *)
(***************************************************************************)
RECURSIVE AscendingLists(_, _, _, _)
\* AscendingSeqs(k, lo, n, gap) as a list in lexicographic order
AscendingLists(k, lo, n, gap) ==
    IF k = 0 THEN << <<>> >>
    ELSE Concat([j \in 1..(n - lo) |->
                    LET f == lo + j - 1
                        rest == AscendingLists(k - 1, f + gap, n, gap)
                    IN  [x \in 1..Len(rest) |-> <<f>> \o rest[x]]])

\* the elements of iterable at the 0-based positions idx
Pick(iterable, idx) == [x \in 1..Len(idx) |-> iterable[idx[x] + 1]] \o <<>>

itertools_combinations(iterable, r) ==
    LET idxs == AscendingLists(r, 0, Len(iterable), 1)
    IN  [x \in 1..Len(idxs) |-> Pick(iterable, idxs[x])] \o <<>>

itertools_combinations_with_replacement(iterable, r) ==
    LET idxs == AscendingLists(r, 0, Len(iterable), 0)
    IN  [x \in 1..Len(idxs) |-> Pick(iterable, idxs[x])] \o <<>>

\* [a + b for a in firsts for b in rests]
Product(firsts, rests) ==
    LET nr == Len(rests)
    IN  [z \in 1..(Len(firsts) * nr) |->
            firsts[((z - 1) \div nr) + 1] \o rests[((z - 1) % nr) + 1]] \o <<>>

(***************************************************************************)
(* all_unlabelled_trees.  A yielded tree is written as the list of its     *)
(* children, the leaf RankTree() as the empty list; RankTreeOf constructs  *)
(* the RankTree objects.  S is the list of list(all_unlabelled_trees(k))   *)
(* for the k below n, which all_subtree_pairings asks for.                 *)
(***************************************************************************)
RECURSIVE all_subtree_pairings(_, _)
all_subtree_pairings(S, grouped_part) ==
    IF Len(grouped_part) = 0 THEN << <<>> >>
    ELSE LET g == grouped_part[1]
             k == g[1]
             all_k_leaf_trees == S[k]
             num_k_leaf_trees == Len(g)
             g_trees == itertools_combinations_with_replacement(all_k_leaf_trees,
                                                                num_k_leaf_trees)
         IN  Product(g_trees, all_subtree_pairings(S, Tail(grouped_part)))

all_unlabelled_trees_with(S, n) ==
    IF n = 1 THEN << <<>> >>
    ELSE LET parts == partition(n)
         IN  Concat([p \in 1..Len(parts) |->
                        all_subtree_pairings(S, group_partition(parts[p]))])

RECURSIVE UnlabelledUpTo(_)
\* <<list(all_unlabelled_trees(1)), ..., list(all_unlabelled_trees(n))>>
UnlabelledUpTo(n) ==
    IF n <= 0 THEN <<>>
    ELSE LET S == UnlabelledUpTo(n - 1) IN Append(S, all_unlabelled_trees_with(S, n))

UnlabelledTrees == UnlabelledUpTo(MaxShapeN)

\* list(all_unlabelled_trees(n)) for n <= MaxShapeN
all_unlabelled_trees(n) == IF n <= 0 THEN <<>> ELSE UnlabelledTrees[n]

RECURSIVE RankTreeOf(_)
\* RankTree() at the leaves and RankTree(children=...) above them
RankTreeOf(tree) ==
    IF tree = <<>> THEN RankTree(None, None, <<>>, None)
    ELSE RankTree(None, None, [i \in 1..Len(tree) |-> RankTreeOf(tree[i])] \o <<>>, None)

(***************************************************************************)
(* test_num_shapes: the caller draws the trees of all_unlabelled_trees(n)  *)
(* one at a time and, when the generator is exhausted, compares their      *)
(* number with num_shapes(n).                                              *)
(***************************************************************************)
InitShapes ==
    /\ pc = "call"
    /\ call \in {[op |-> "all_unlabelled_trees", n |-> n] : n \in 0..MaxShapeN}
    /\ ret = NoRet
    /\ gen = [i |-> 0]

\* next() on all_unlabelled_trees(n), yielding
YieldShape ==
    /\ pc \in {"call", "running"}
    /\ call.op = "all_unlabelled_trees"
    /\ gen.i < Len(all_unlabelled_trees(call.n))
    /\ ret' = [tree |-> all_unlabelled_trees(call.n)[gen.i + 1], count |-> gen.i + 1]
    /\ gen' = [i |-> gen.i + 1]
    /\ pc' = "running"
    /\ UNCHANGED call

\* next() on the exhausted generator, then comb.num_shapes(n)
NumShapes ==
    /\ pc \in {"call", "running"}
    /\ call.op = "all_unlabelled_trees"
    /\ gen.i >= Len(all_unlabelled_trees(call.n))
    /\ ret' = [count |-> gen.i, num_shapes |-> num_shapes(call.n)]
    /\ pc' = "exhausted"
    /\ UNCHANGED <<call, gen>>

NextShapes == YieldShape \/ NumShapes

SpecShapes == InitShapes /\ [][NextShapes]_vars

(***************************************************************************)
(* Tree shapes, independently of the enumeration.  An unordered shape is   *)
(* the bag of the shapes of its children.  Every shape with n + 1 >= 2     *)
(* leaves and no unary node is a shape with n leaves to which one leaf was *)
(* added: as a further child of an internal node, or as the sibling of a   *)
(* node under a new parent.                                                *)
(***************************************************************************)
RECURSIVE ShapeBag(_)
ShapeBag(tree) ==
    LET kids == [i \in 1..Len(tree) |-> ShapeBag(tree[i])] \o <<>>
    IN  [x \in {kids[i] : i \in 1..Len(tree)} |->
            Cardinality({i \in 1..Len(tree) : kids[i] = x})]

RECURSIVE NumLeaves(_)
NumLeaves(tree) ==
    IF tree = <<>> THEN 1 ELSE SumSeq([i \in 1..Len(tree) |-> NumLeaves(tree[i])] \o <<>>)

RECURSIVE NoUnaryNode(_)
NoUnaryNode(tree) == Len(tree) # 1 /\ \A i \in 1..Len(tree) : NoUnaryNode(tree[i])

RECURSIVE WithOneMoreLeaf(_)
WithOneMoreLeaf(tree) ==
    {<<tree, <<>>>>}
    \cup (IF tree = <<>> THEN {} ELSE {Append(tree, <<>>)})
    \cup UNION {{SubSeq(tree, 1, i - 1) \o <<x>> \o SubSeq(tree, i + 1, Len(tree))
                   : x \in WithOneMoreLeaf(tree[i])} : i \in 1..Len(tree)}

\* the shapes that all_unlabelled_trees(n) yields, as bags
YieldedShapes ==
    [n \in 1..MaxShapeN |->
        {ShapeBag(all_unlabelled_trees(n)[i]) : i \in 1..Len(all_unlabelled_trees(n))}]

RECURSIVE InsertSorted_by_num_leaves(_, _, _)
\* InsertSorted comparing the numbers of leaves only
InsertSorted_by_num_leaves(sorted, c, i) ==
    IF i > Len(sorted) \/ c.num_leaves < sorted[i].num_leaves
    THEN SubSeq(sorted, 1, i - 1) \o <<c>> \o SubSeq(sorted, i, Len(sorted))
    ELSE InsertSorted_by_num_leaves(sorted, c, i + 1)

RECURSIVE InsertSorted(_, _, _)
\* c inserted after the elements of the sorted list that are not greater
InsertSorted(sorted, c, i) ==
    IF i > Len(sorted) \/ LexLess(canonical_order(c), canonical_order(sorted[i]))
    THEN SubSeq(sorted, 1, i - 1) \o <<c>> \o SubSeq(sorted, i, Len(sorted))
    ELSE InsertSorted(sorted, c, i + 1)

RECURSIVE SortedFrom(_, _, _)
SortedFrom(children, i, sorted) ==
    IF i > Len(children) THEN sorted
    ELSE SortedFrom(children, i + 1, InsertSorted(sorted, children[i], 1))

\* the children left in the order they come in
sorted_by_canonical_order_as_given(children) == children

\* sorted(children, key=RankTree.canonical_order), a stable sort
sorted_by_canonical_order(children) == SortedFrom(children, 1, <<>>)

RECURSIVE from_tsk_tree_node(_)
from_tsk_tree_node(tree) ==
    IF Len(tree.children) = 0 THEN RankTree(None, None, <<>>, tree.labels[1])
    ELSE RankTree(None, None,
                  sorted_by_canonical_order(
                      [i \in 1..Len(tree.children) |->
                          from_tsk_tree_node(tree.children[i])] \o <<>>),
                  None)

\* RankTree.from_tsk_tree(tree) of a tree with one root
from_tsk_tree(tree) == add_label_ranks(from_tsk_tree_node(tree))

(***************************************************************************)
(* Unranking and ranking one tree: shape_unrank(s, n), label_unrank(l) on  *)
(* its result, unrank((s, l), n), and the ranks computed again.            *)
(***************************************************************************)
\* the (s, l) with 0 <= s < num_shapes(n) and 0 <= l < num_labellings(s, n)
RankPairs(n) ==
    UNION {{<<s, l>> : l \in 0..(num_labellings(s, n).value - 1)}
              : s \in 0..(num_shapes(n) - 1)}

\* two shapes with more leaves, in which the trees of a group of equal
\* children, and the groups after it, have several labellings of their own:
\* two (a,(b,c)) subtrees; two cherries before an (a,(b,c)) subtree
DeeperShapes == {<<6, 32>>, <<7, 67>>}

\* and the last shape of every larger n, with its first labelling
TreeInputs ==
    UNION {{[op |-> "unrank", n |-> n, s |-> r[1], l |-> r[2]] : r \in RankPairs(n)}
              : n \in 1..MaxLeaves}
    \cup UNION {{[op |-> "unrank", n |-> d[1], s |-> d[2], l |-> l]
                   : l \in 0..(num_labellings(d[2], d[1]).value - 1)} : d \in DeeperShapes}
    \cup {[op |-> "unrank", n |-> n, s |-> num_shapes(n) - 1, l |-> 0]
              : n \in (MaxLeaves + 1)..MaxShapeN}

InitTree ==
    /\ pc = "call"
    /\ call \in TreeInputs
    /\ ret = NoRet
    /\ gen = NoGen

\* t = RankTree.shape_unrank(s, n)
ShapeUnrank ==
    /\ pc = "call"
    /\ call.op = "unrank"
    /\ ret' = [shape |-> RankTree_shape_unrank(call.s, call.n)]
    /\ pc' = "shape"
    /\ UNCHANGED <<call, gen>>

\* t.label_unrank(l)
LabelUnrank ==
    /\ pc = "shape"
    /\ ret' = [shape |-> ret.shape,
               labelled |-> RankTree_label_unrank(ret.shape, call.l)]
    /\ pc' = "labelled"
    /\ UNCHANGED <<call, gen>>

\* RankTree.unrank((s, l), n)
Unrank ==
    /\ pc = "labelled"
    /\ ret' = [shape |-> ret.shape, labelled |-> ret.labelled,
               unranked |-> RankTree_unrank(<<call.s, call.l>>, call.n)]
    /\ pc' = "unranked"
    /\ UNCHANGED <<call, gen>>

\* the ranks again: the shape rank from the leaves up with no cached value,
\* the label rank by add_label_ranks, and rank() of from_tsk_tree
Rerank ==
    /\ pc = "unranked"
    /\ ret' = [shape |-> ret.shape, labelled |-> ret.labelled, unranked |-> ret.unranked,
               shape_rank |-> from_tsk_tree_node(ret.shape).shape_rank,
               label_rank |-> add_label_ranks(ret.labelled).label_rank,
               rank |-> RankTree_rank(from_tsk_tree(ret.unranked)).value]
    /\ pc' = "ranked"
    /\ UNCHANGED <<call, gen>>

NextTree == ShapeUnrank \/ LabelUnrank \/ Unrank \/ Rerank

SpecTree == InitTree /\ [][NextTree]_vars

\* C2: for every n <= MaxLeaves and r < num_shapes(n), the shape rank of
\* RankTree.shape_unrank(r, n), computed again by compute_shape_rank at every
\* node from the leaves up, is r.
C2_ShapeRankInvertsShapeUnrank ==
    (call.op = "unrank" /\ pc = "ranked") =>
        /\ ret.shape_rank = call.s
        /\ ret.shape.num_leaves = call.n

C2_Witness ==
    /\ pc = "ranked"
    /\ call.op = "unrank"
    /\ call.n = 5
    /\ call.s = 8
    /\ ret.shape_rank = 8
    /\ leaf_partition(ret.shape) = <<1, 4>>

\* C3: for every shape t = shape_unrank(s, n) and r < t.num_labellings(), the
\* label rank that add_label_ranks computes on t.label_unrank(r) is r, which
\* is also the label rank that label_unrank stored in its result.
C3_LabelRankInvertsLabelUnrank ==
    (call.op = "unrank" /\ pc = "ranked") =>
        /\ call.l < RankTree_num_labellings(ret.shape)
        /\ ret.label_rank = call.l
        /\ ret.labelled.label_rank = call.l

C3_Witness ==
    /\ pc = "ranked"
    /\ call.op = "unrank"
    /\ call.n = 7
    /\ call.s = 67
    /\ call.l = 314
    /\ ret.label_rank = 314
    /\ ret.labelled.label_rank = 314

RECURSIVE SiblingsNeverDecrease(_)
\* at every internal node: num_leaves never decreases from a child to the next,
\* nor shape_rank among equal num_leaves, nor the minimum label among equal both
SiblingsNeverDecrease(t) ==
    /\ \A i \in 1..(Len(t.children) - 1) :
          LET a == t.children[i]
              b == t.children[i + 1]
          IN  \/ a.num_leaves < b.num_leaves
              \/ a.num_leaves = b.num_leaves /\ a.shape_rank < b.shape_rank
              \/ /\ a.num_leaves = b.num_leaves
                 /\ a.shape_rank = b.shape_rank
                 /\ a.labels[1] <= b.labels[1]
    /\ \A i \in 1..Len(t.children) : SiblingsNeverDecrease(t.children[i])

\* C5: the trees that shape_unrank(s, n), label_unrank(l) on it and
\* unrank((s, l), n) return are canonical: is_canonical() holds of each, and
\* at every internal node the triples (num_leaves, shape_rank, minimum label)
\* of consecutive children never decrease.
C5_UnrankedTreesAreCanonical ==
    call.op = "unrank" =>
        /\ pc \in {"shape", "labelled", "unranked", "ranked"} =>
              is_canonical(ret.shape) /\ SiblingsNeverDecrease(ret.shape)
        /\ pc \in {"labelled", "unranked", "ranked"} =>
              is_canonical(ret.labelled) /\ SiblingsNeverDecrease(ret.labelled)
        /\ pc \in {"unranked", "ranked"} =>
              is_canonical(ret.unranked) /\ SiblingsNeverDecrease(ret.unranked)

C5_Witness ==
    /\ pc = "ranked"
    /\ call.op = "unrank"
    /\ call.n = 5
    /\ call.s = 11
    /\ call.l = 29
    /\ is_canonical(ret.shape)
    /\ is_canonical(ret.labelled)
    /\ is_canonical(ret.unranked)
    /\ leaf_partition(ret.unranked) = <<2, 3>>
    /\ ret.unranked.labels = <<0, 1, 2, 3, 4>>

(***************************************************************************)
(* all_labellings, label_all_groups and label_tree_group of the tests, on  *)
(* RankTree objects.                                                       *)
(***************************************************************************)
RECURSIVE all_labellings(_, _)
RECURSIVE label_all_groups(_, _)
RECURSIVE label_tree_group(_, _)

\* all_labellings(tree, labels); labels=None is list(range(tree.num_leaves))
all_labellings(tree, labels) ==
    IF is_leaf(tree)
    THEN IF Len(labels) # 1 THEN AssertionError
         ELSE <<RankTree(None, None, <<>>, labels[1])>>
    ELSE LET trees_of(labelled) ==
                 [x \in 1..Len(labelled) |-> RankTree(None, None, labelled[x], None)] \o <<>>
         IN  trees_of(label_all_groups(group_children_by_shape(tree), labels))

label_all_groups(groups, labels) ==
    IF Len(groups) = 0 THEN << <<>> >>
    ELSE LET g == groups[1]
             rest == Tail(groups)
             x == Len(g)
             k == g[1].num_leaves
             for_labels(g_labels) ==
                 Product(label_tree_group(g, g_labels),
                         label_all_groups(rest, set_minus(labels, g_labels)))
             over(combs) == Concat([c \in 1..Len(combs) |-> for_labels(combs[c])])
         IN  over(itertools_combinations(labels, x * k))

label_tree_group(trees, labels) ==
    IF Len(trees) = 0
    THEN IF Len(labels) # 0 THEN AssertionError ELSE << <<>> >>
    ELSE LET first == trees[1]
             rest == Tail(trees)
             k == first.num_leaves
             min_lab == labels[1]
             singletons(firsts) == [y \in 1..Len(firsts) |-> <<firsts[y]>>] \o <<>>
             for_labels(first_labels) ==
                 Product(singletons(all_labellings(first, first_labels)),
                         label_tree_group(rest, set_minus(labels, first_labels)))
             over(combs) ==
                 Concat([c \in 1..Len(combs) |-> for_labels(<<min_lab>> \o combs[c])])
         IN  over(itertools_combinations(Tail(labels), k - 1))

\* all_labelled_trees(n) of the tests with the enumerate() of its callers:
\* shape_rank counts the trees of all_unlabelled_trees(n), label_rank the
\* trees of all_labellings(tree)
all_labellings_enumerated(tree, shape_rank) ==
    LET enumerated(labelled) ==
            [j \in 1..Len(labelled) |->
                [shape_rank |-> shape_rank, label_rank |-> j - 1,
                 labelled_tree |-> labelled[j]]] \o <<>>
    IN  enumerated(all_labellings(RankTreeOf(tree), Range(NumLeaves(tree))))

all_labelled_trees(n) ==
    LET over(shapes) ==
            Concat([i \in 1..Len(shapes) |-> all_labellings_enumerated(shapes[i], i - 1)])
    IN  over(all_unlabelled_trees(n))

LabelledTrees == [n \in 1..MaxLeaves |-> all_labelled_trees(n)] \o <<>>

\* the same for the one tree of each of DeeperShapes
DeeperLabellings ==
    [d \in DeeperShapes |->
        all_labellings_enumerated(all_unlabelled_trees(d[1])[d[2] + 1], d[2])]

\* what the generator that `c` calls yields, with the indexes of enumerate()
ReferenceTrees(c) ==
    IF c.op = "all_labellings" THEN DeeperLabellings[<<c.n, c.s>>]
    ELSE IF c.n >= 1 THEN LabelledTrees[c.n]
    ELSE <<>>

(***************************************************************************)
(* Two callers that walk a whole enumeration for one n.  "unrank_all" is   *)
(* the loop  for s in range(num_shapes(n)):                                *)
(*              for l in range(num_labellings(s, n)):                      *)
(*                  RankTree.unrank((s, l), n)                             *)
(* with gen holding the next pair and the number of trees produced.        *)
(* "all_labelled_trees" is the loop of test_label_unrank over the          *)
(* reference enumeration, computing rank() of every labelled tree; gen     *)
(* holds the number of trees drawn.  "all_labellings" is its inner loop    *)
(* for the one tree with shape rank s.                                     *)
(***************************************************************************)
InitEnum ==
    /\ pc = "call"
    /\ call \in {[op |-> o, n |-> n] : o \in {"unrank_all", "all_labelled_trees"},
                                       n \in 0..MaxLeaves}
                \cup {[op |-> "all_labellings", n |-> d[1], s |-> d[2]] : d \in DeeperShapes}
    /\ ret = NoRet
    /\ gen = IF call.op = "unrank_all" THEN [s |-> 0, l |-> 0, count |-> 0]
             ELSE [count |-> 0]

UnrankNext ==
    /\ pc \in {"call", "running"}
    /\ call.op = "unrank_all"
    /\ gen.s < num_shapes(call.n)
    /\ ret' = [rank |-> <<gen.s, gen.l>>, position |-> gen.count + 1,
               tree |-> RankTree_unrank(<<gen.s, gen.l>>, call.n)]
    /\ gen' = IF gen.l + 1 < num_labellings(gen.s, call.n).value
              THEN [s |-> gen.s, l |-> gen.l + 1, count |-> gen.count + 1]
              ELSE [s |-> gen.s + 1, l |-> 0, count |-> gen.count + 1]
    /\ pc' = "running"
    /\ UNCHANGED call

UnrankDone ==
    /\ pc \in {"call", "running"}
    /\ call.op = "unrank_all"
    /\ gen.s >= num_shapes(call.n)
    /\ ret' = [count |-> gen.count]
    /\ pc' = "exhausted"
    /\ UNCHANGED <<call, gen>>

LabelledNext ==
    /\ pc \in {"call", "running"}
    /\ call.op \in {"all_labelled_trees", "all_labellings"}
    /\ gen.count < Len(ReferenceTrees(call))
    /\ LET yielded(y) == [index |-> <<y.shape_rank, y.label_rank>>,
                          tree |-> y.labelled_tree,
                          rank |-> RankTree_rank(y.labelled_tree).value]
       IN  ret' = yielded(ReferenceTrees(call)[gen.count + 1])
    /\ gen' = [count |-> gen.count + 1]
    /\ pc' = "running"
    /\ UNCHANGED call

LabelledDone ==
    /\ pc \in {"call", "running"}
    /\ call.op \in {"all_labelled_trees", "all_labellings"}
    /\ gen.count >= Len(ReferenceTrees(call))
    /\ ret' = [count |-> gen.count]
    /\ pc' = "exhausted"
    /\ UNCHANGED <<call, gen>>

NextEnum == UnrankNext \/ UnrankDone \/ LabelledNext \/ LabelledDone

SpecEnum == InitEnum /\ [][NextEnum]_vars

\* C4: the j-th labelling of the i-th shape of the reference enumeration has
\* rank() == (i, j); the enumeration for n leaves has as many trees as there
\* are (shape rank, label rank) pairs, and the one for a single shape as
\* many as the shape has labellings.
C4_RankIsReferenceIndex ==
    /\ (call.op \in {"all_labelled_trees", "all_labellings"} /\ pc = "running") =>
          ret.rank = ret.index
    /\ (call.op = "all_labelled_trees" /\ pc = "exhausted" /\ call.n >= 1) =>
          ret.count = Cardinality(RankPairs(call.n))
    /\ (call.op = "all_labellings" /\ pc = "exhausted") =>
          ret.count = num_labellings(call.s, call.n).value

C4_Witness ==
    /\ pc = "running"
    /\ call.op = "all_labelled_trees"
    /\ call.n = 5
    /\ ret.index = <<11, 29>>
    /\ ret.rank = <<11, 29>>
    /\ leaf_partition(ret.tree) = <<2, 3>>

(***************************************************************************)
(* The leaf-labelled trees with labels 0..n-1 and no unary node, built     *)
(* without ranks: a tree is written with the children of every node in     *)
(* the order of their smallest labels, the leaf with label x as <<x>>.     *)
(* Every tree with the labels 0..x comes from exactly one tree with the    *)
(* labels 0..x-1 by putting in the leaf x: beside the whole tree under a   *)
(* new root, as one more child of a node, or into one of the subtrees.     *)
(***************************************************************************)
RECURSIVE WithLeaf(_, _)
WithLeaf(tree, x) ==
    {<<tree, <<x>>>>}
    \cup (IF Len(tree) = 1 THEN {}
          ELSE {tree \o << <<x>> >>}
               \cup UNION {{SubSeq(tree, 1, i - 1) \o <<sub>> \o SubSeq(tree, i + 1, Len(tree))
                              : sub \in WithLeaf(tree[i], x)} : i \in 1..Len(tree)})

RECURSIVE TreesOnLabelsUpTo(_)
\* the list whose n-th entry is the set of the trees with labels 0..n-1
TreesOnLabelsUpTo(n) ==
    IF n = 1 THEN << {<<0>>} >>
    ELSE LET before == TreesOnLabelsUpTo(n - 1)
         IN  before \o <<UNION {WithLeaf(tree, n - 1) : tree \in before[n - 1]}>>

TreesOnLabels == TreesOnLabelsUpTo(MaxLeaves)

RECURSIVE FirstLabel(_)
\* the smallest label of a tree written in that order
FirstLabel(tree) == IF Len(tree) = 1 THEN tree[1] ELSE FirstLabel(tree[1])

RECURSIVE PutByFirstLabel(_, _, _)
PutByFirstLabel(sorted, c, i) ==
    IF i > Len(sorted) THEN sorted \o <<c>>
    ELSE IF FirstLabel(c) < FirstLabel(sorted[i])
         THEN SubSeq(sorted, 1, i - 1) \o <<c>> \o SubSeq(sorted, i, Len(sorted))
    ELSE PutByFirstLabel(sorted, c, i + 1)

RECURSIVE Unordered(_)
RECURSIVE UnorderedFrom(_, _, _)
UnorderedFrom(children, i, sorted) ==
    IF i > Len(children) THEN sorted
    ELSE UnorderedFrom(children, i + 1, PutByFirstLabel(sorted, Unordered(children[i]), 1))

\* a RankTree written that way: the tree it is when sibling order is ignored
Unordered(self) ==
    IF is_leaf(self) THEN <<self.labels[1]>>
    ELSE UnorderedFrom(self.children, 1, <<>>)

RECURSIVE HasUnaryNode(_)
HasUnaryNode(self) ==
    \/ Len(self.children) = 1
    \/ \E i \in 1..Len(self.children) : HasUnaryNode(self.children[i])

\* the trees of the loop "unrank_all", in the order the loop produces them
unrank_all(n) ==
    Concat([s \in 1..num_shapes(n) |->
               [l \in 1..num_labellings(s - 1, n).value |->
                   RankTree_unrank(<<s - 1, l - 1>>, n)] \o <<>>])

UnrankedTrees == [n \in 1..MaxLeaves |-> unrank_all(n)] \o <<>>

\* the same trees with sibling order ignored
UnrankedUnordered ==
    [n \in 1..MaxLeaves |->
        [p \in 1..Len(UnrankedTrees[n]) |-> Unordered(UnrankedTrees[n][p])] \o <<>>] \o <<>>

\* C1: (s, l) -> RankTree.unrank((s, l), n) is a bijection from the pairs
\* with s < num_shapes(n), l < num_labellings(s, n) onto the leaf-labelled
\* trees with n leaves, labels 0..n-1 and no unary node: every tree produced
\* is such a tree, no pair met before produced a tree that is equal() to it
\* or that is the same tree in another sibling order, and once the pairs are
\* exhausted every such tree has been produced.
C1_UnrankIsBijection ==
    call.op = "unrank_all" =>
        /\ pc = "running" =>
              /\ ~IsError(ret.tree)
              /\ ~HasUnaryNode(ret.tree)
              /\ LET tree == Unordered(ret.tree)
                 IN  /\ tree \in TreesOnLabels[call.n]
                     /\ \A p \in 1..(ret.position - 1) :
                           /\ ~equal(UnrankedTrees[call.n][p], ret.tree)
                           /\ UnrankedUnordered[call.n][p] # tree
        /\ (pc = "exhausted" /\ call.n >= 1) =>
              /\ ret.count = Cardinality(TreesOnLabels[call.n])
              /\ TreesOnLabels[call.n] \subseteq
                     {UnrankedUnordered[call.n][p] : p \in 1..ret.count}

C1_Witness ==
    /\ pc = "exhausted"
    /\ call.op = "unrank_all"
    /\ call.n = 5
    /\ ret.count = 236
    /\ Cardinality(TreesOnLabels[5]) = 236

(***************************************************************************)
(* Counting labelled trees.  "num_labelled_trees" is the loop              *)
(*     sum(num_labellings(s, n) for s in range(num_shapes(n)))             *)
(* with gen holding the next shape rank and the sum so far.                *)
(* "num_labellings" is the body of test_num_labellings for the tree with   *)
(* index s of all_unlabelled_trees(n): the labellings that all_labellings  *)
(* yields are counted, then num_labellings() is called on the tree.        *)
(***************************************************************************)
MaxCountN == 6

\* the shapes of at most MaxLeaves leaves, and DeeperShapes
CountedShapes ==
    UNION {{<<n, s>> : s \in 0..(Len(all_unlabelled_trees(n)) - 1)} : n \in 2..MaxLeaves}
    \cup DeeperShapes

\* list(all_labellings(tree)) for the tree with index s of all_unlabelled_trees(n)
labellings_of_shape(n, s) ==
    IF <<n, s>> \in DeeperShapes THEN DeeperLabellings[<<n, s>>]
    ELSE SelectSeq(LabelledTrees[n], LAMBDA y : y.shape_rank = s)

InitCount ==
    /\ pc = "call"
    /\ call \in {[op |-> "num_labelled_trees", n |-> n] : n \in 0..MaxCountN}
                \cup {[op |-> "num_labellings", n |-> d[1], s |-> d[2]] : d \in CountedShapes}
    /\ ret = NoRet
    /\ gen = IF call.op = "num_labelled_trees" THEN [s |-> 0, total |-> 0] ELSE NoGen

\* one term of the sum: num_labellings(s, n)
AddShape ==
    /\ pc \in {"call", "running"}
    /\ call.op = "num_labelled_trees"
    /\ gen.s < num_shapes(call.n)
    /\ ret' = [shape_rank |-> gen.s, num_labellings |-> num_labellings(gen.s, call.n).value]
    /\ gen' = [s |-> gen.s + 1, total |-> gen.total + ret'.num_labellings]
    /\ pc' = "running"
    /\ UNCHANGED call

TotalDone ==
    /\ pc \in {"call", "running"}
    /\ call.op = "num_labelled_trees"
    /\ gen.s >= num_shapes(call.n)
    /\ ret' = [total |-> gen.total]
    /\ pc' = "exhausted"
    /\ UNCHANGED <<call, gen>>

\* n_labellings = sum(1 for _ in all_labellings(tree))
CountLabellings ==
    /\ pc = "call"
    /\ call.op = "num_labellings"
    /\ ret' = [n_labellings |-> Len(labellings_of_shape(call.n, call.s))]
    /\ pc' = "counted"
    /\ UNCHANGED <<call, gen>>

\* tree.num_labellings()
NumLabellings ==
    /\ pc = "counted"
    /\ call.op = "num_labellings"
    /\ ret' = [n_labellings |-> ret.n_labellings,
               num_labellings |->
                   RankTree_num_labellings(RankTreeOf(all_unlabelled_trees(call.n)[call.s + 1]))]
    /\ pc' = "done"
    /\ UNCHANGED <<call, gen>>

NextCount == AddShape \/ TotalDone \/ CountLabellings \/ NumLabellings

SpecCount == InitCount /\ [][NextCount]_vars

\* C11: the sum of num_labellings(s, n) over the shape ranks s of n leaves is
\* 0, 1, 1, 4, 26, 236, 2752 for n = 0..6 (and 39208 for n = 7, the next
\* entry of test_num_labelled_trees).
C11_NumLabelledTrees ==
    (call.op = "num_labelled_trees" /\ pc = "exhausted" /\ call.n <= 7) =>
        ret.total = <<0, 1, 1, 4, 26, 236, 2752, 39208>>[call.n + 1]

C11_Witness ==
    /\ pc = "exhausted"
    /\ call.op = "num_labelled_trees"
    /\ call.n = 6
    /\ gen.s = 33
    /\ ret.total = 2752

\* C12: num_labellings() of a shape is the number of the labellings that
\* all_labellings yields for it, which are canonical trees of that shape
\* with the labels 0..n-1, no two of them the same.
C12_NumLabellingsCountsLabellings ==
    (call.op = "num_labellings" /\ pc = "done") =>
        LET labelled == labellings_of_shape(call.n, call.s)
            shape == RankTreeOf(all_unlabelled_trees(call.n)[call.s + 1])
        IN  /\ ret.num_labellings = ret.n_labellings
            /\ ret.n_labellings = Cardinality({labelled[j].labelled_tree : j \in 1..Len(labelled)})
            /\ \A j \in 1..Len(labelled) :
                  /\ shape_equal(labelled[j].labelled_tree, shape)
                  /\ is_canonical(labelled[j].labelled_tree)
                  /\ labelled[j].labelled_tree.labels = Range(call.n)

C12_Witness ==
    /\ pc = "done"
    /\ call.op = "num_labellings"
    /\ call.n = 7
    /\ call.s = 67
    /\ ret.n_labellings = ret.num_labellings
    /\ ret.num_labellings > 314

(***************************************************************************)
(* Calls with arguments outside the documented ranges: ranks that no tree  *)
(* or combination has, n or k negative, k above n.                         *)
(***************************************************************************)
MaxArg == 3
MaxArgLeaves == 4

\* the label ranks tried for a shape rank: all the valid ones and some around them
LabelRanksAround(s, n) ==
    IF 0 <= s /\ s < num_shapes(n) /\ n >= 1
    THEN (-2)..(num_labellings(s, n).value + 1)
    ELSE (-1)..1

ArgInputs ==
    {[op |-> "comb", n |-> n, k |-> k] : n \in (-MaxArg)..MaxArg, k \in (-MaxArg)..MaxArg}
    \cup {[op |-> "comb_with_replacement", n |-> n, k |-> k] :
              n \in (-MaxArg)..MaxArg, k \in (-MaxArg)..MaxArg}
    \cup UNION {UNION {{[op |-> "RankTree.unrank", n |-> n, s |-> s, l |-> l] :
                           l \in LabelRanksAround(s, n)} :
                       s \in (-1)..(num_shapes(n) + 1)} : n \in 0..MaxArgLeaves}
    \cup UNION {UNION {{[op |-> "Combination.unrank", r |-> r, n |-> n, k |-> k] :
                           r \in 0..(comb(n, k) + 2)} : k \in 0..n} : n \in 0..MaxArg}
    \cup UNION {UNION {{[op |-> "with_replacement_unrank", r |-> r, n |-> n, k |-> k] :
                           r \in 0..(comb_with_replacement(n, k) + 2)} :
                       k \in 0..MaxArg} : n \in 1..MaxArg}

InitArgs ==
    /\ pc = "call"
    /\ call \in ArgInputs
    /\ ret = NoRet
    /\ gen = NoGen

\* what the caller gets: the exception, or the value returned
Returned(v) == IF IsError(v) THEN v ELSE [value |-> v]

CallComb ==
    /\ pc = "call"
    /\ call.op = "comb"
    /\ ret' = [value |-> comb(call.n, call.k)]
    /\ pc' = "returned"
    /\ UNCHANGED <<call, gen>>

CallCombWithReplacement ==
    /\ pc = "call"
    /\ call.op = "comb_with_replacement"
    /\ ret' = [value |-> comb_with_replacement(call.n, call.k)]
    /\ pc' = "returned"
    /\ UNCHANGED <<call, gen>>

CallUnrank ==
    /\ pc = "call"
    /\ call.op = "RankTree.unrank"
    /\ ret' = Returned(RankTree_unrank(<<call.s, call.l>>, call.n))
    /\ pc' = "returned"
    /\ UNCHANGED <<call, gen>>

CallCombinationUnrank ==
    /\ pc = "call"
    /\ call.op = "Combination.unrank"
    /\ ret' = [value |-> Combination_unrank(call.r, Range(call.n), call.k)]
    /\ pc' = "returned"
    /\ UNCHANGED <<call, gen>>

CallWithReplacementUnrank ==
    /\ pc = "call"
    /\ call.op = "with_replacement_unrank"
    /\ ret' = [value |-> with_replacement_unrank(call.r, call.n, call.k)]
    /\ pc' = "returned"
    /\ UNCHANGED <<call, gen>>

NextArgs ==
    \/ CallComb
    \/ CallCombWithReplacement
    \/ CallUnrank
    \/ CallCombinationUnrank
    \/ CallWithReplacementUnrank

SpecArgs == InitArgs /\ [][NextArgs]_vars

\* C13: RankTree.unrank((s, l), n) returns a tree only when
\* 0 <= s < num_shapes(n) and 0 <= l < num_labellings(s, n); for every other
\* pair it raises and returns no tree.
C13_UnrankRejectsInvalidRanks ==
    (call.op = "RankTree.unrank" /\ pc = "returned" /\ ~IsError(ret)) =>
        /\ 0 <= call.s
        /\ call.s < num_shapes(call.n)
        /\ 0 <= call.l
        /\ call.l < RankTree_num_labellings(ret.value)

\* C20: Combination.comb(n, k) with k > n, or with n or k negative, raises or
\* returns 0; it never returns a positive count.
C20_CombRejectsInvalidArguments ==
    (call.op = "comb" /\ pc = "returned"
        /\ (call.k > call.n \/ call.n < 0 \/ call.k < 0)) =>
        IsError(ret) \/ ret.value = 0

\* C21: Combination.unrank(r, elements, k) with r >= comb(len(elements), k)
\* and Combination.with_replacement_unrank(r, n, k) with
\* r >= comb_with_replacement(n, k) raise and return no combination.
C21_UnrankRejectsRankOutOfRange ==
    /\ (call.op = "Combination.unrank" /\ pc = "returned"
            /\ call.r >= comb(call.n, call.k)) => IsError(ret)
    /\ (call.op = "with_replacement_unrank" /\ pc = "returned"
            /\ call.r >= comb_with_replacement(call.n, call.k)) => IsError(ret)

(***************************************************************************)
(* Properties of the trees that SpecTree unranks.                          *)
(***************************************************************************)
RECURSIVE LeafLabels(_)
\* the labels of the leaves in a depth-first, left-to-right traversal
LeafLabels(t) ==
    IF is_leaf(t) THEN <<t.labels[1]>>
    ELSE Concat([i \in 1..Len(t.children) |-> LeafLabels(t.children[i])])

RECURSIVE SameRanksAt(_, _)
\* the same num_leaves and shape_rank at every corresponding node
SameRanksAt(a, b) ==
    /\ a.num_leaves = b.num_leaves
    /\ a.shape_rank = b.shape_rank
    /\ Len(a.children) = Len(b.children)
    /\ \A i \in 1..Len(a.children) : SameRanksAt(a.children[i], b.children[i])

\* C15: for every n and s < num_shapes(n), a depth-first, left-to-right
\* traversal of unrank((s, 0), n), the tree of shape_unrank(s, n), visits the
\* leaf labels 0, 1, ..., n - 1 in this order.
C15_ShapeUnrankLabelsInOrder ==
    (call.op = "unrank" /\ call.l = 0 /\ pc \in {"unranked", "ranked"}) =>
        /\ ~IsError(ret.unranked)
        /\ LeafLabels(ret.unranked) = Range(call.n)

C15_Witness ==
    /\ pc = "unranked"
    /\ call.op = "unrank"
    /\ call.n = 7
    /\ call.s = 67
    /\ call.l = 0
    /\ LeafLabels(ret.unranked) = <<0, 1, 2, 3, 4, 5, 6>>
    /\ Len(group_children_by_shape(ret.unranked)) < Len(ret.unranked.children)

\* C16: for t = shape_unrank(s, n) and l < t.num_labellings(), t.label_unrank(l)
\* is a tree of the same shape as t, with the same num_leaves and shape_rank at
\* every corresponding node, whose leaves carry each of 0..n-1 once, and t is
\* still the tree that shape_unrank returned.
C16_LabelUnrankKeepsShape ==
    (call.op = "unrank" /\ pc \in {"labelled", "unranked", "ranked"}) =>
        /\ ~IsError(ret.labelled)
        /\ shape_equal(ret.labelled, ret.shape)
        /\ SameRanksAt(ret.labelled, ret.shape)
        /\ Len(LeafLabels(ret.labelled)) = call.n
        /\ Elems(LeafLabels(ret.labelled)) = 0..(call.n - 1)
        /\ ret.labelled.label_rank = call.l
        /\ ret.shape = RankTree_shape_unrank(call.s, call.n)

C16_Witness ==
    /\ pc = "labelled"
    /\ call.op = "unrank"
    /\ call.n = 5
    /\ call.s = 11
    /\ call.l = 29
    /\ shape_equal(ret.labelled, ret.shape)
    /\ LeafLabels(ret.labelled) # Range(5)
    /\ ret.shape.labels = <<None, None, None, None, None>>

\* C17: for every even n >= 2 the tree of the largest shape rank,
\* shape_unrank(num_shapes(n) - 1, n), is symmetrical: the children of its
\* root all have the same number of leaves and the same shape rank.
C17_LastShapeIsSymmetrical ==
    (call.op = "unrank" /\ pc \in {"shape", "labelled", "unranked", "ranked"}
        /\ call.n >= 2 /\ call.n % 2 = 0 /\ call.s = num_shapes(call.n) - 1) =>
        /\ ~IsError(ret.shape)
        /\ is_symmetrical(ret.shape)
        /\ Cardinality(Elems(leaf_partition(ret.shape))) = 1
        /\ \A i \in 1..Len(ret.shape.children) :
              ret.shape.children[i].shape_rank = ret.shape.children[1].shape_rank

C17_Witness ==
    /\ pc = "shape"
    /\ call.op = "unrank"
    /\ call.n = 10
    /\ call.s = num_shapes(10) - 1
    /\ is_symmetrical(ret.shape)
    /\ leaf_partition(ret.shape) = <<5, 5>>

(***************************************************************************)
(* Trees of the external representation.  A tree is the list of its roots; *)
(* the tree below a node is the record of the list tree.children(u) and,   *)
(* at a leaf, of its label.  to_tsk_tree writes one root and an edge for   *)
(* every child; the order in which the external tree gives the children of *)
(* a node back is its own, and a tree of its own may have several roots or *)
(* a node with one child.                                                  *)
(***************************************************************************)
MaxTskLeaves == 4

RECURSIVE to_tsk_tree_node(_)
\* add_node of to_tsk_tree
to_tsk_tree_node(node) ==
    IF is_leaf(node) THEN [children |-> <<>>, labels |-> node.labels]
    ELSE [children |-> [i \in 1..Len(node.children) |->
                           to_tsk_tree_node(node.children[i])] \o <<>>,
          labels |-> <<>>]

to_tsk_tree(self) == [roots |-> <<to_tsk_tree_node(self)>>]

\* RankTree.from_tsk_tree(tree)
RankTree_from_tsk_tree_first_root(tree) ==
    IF Len(tree.roots) = 0 THEN ValueError
    ELSE from_tsk_tree(tree.roots[1])

RankTree_from_tsk_tree(tree) ==
    IF Len(tree.roots) # 1 THEN ValueError
    ELSE from_tsk_tree(tree.roots[1])

\* rank(tree) of the module
tree_rank(tree) ==
    LET ranked(t) == IF IsError(t) THEN t ELSE [value |-> RankTree_rank(t).value]
    IN  ranked(RankTree_from_tsk_tree(tree))

RECURSIVE RankTreeAsGiven(_)
\* RankTree(children=[...]) and RankTree(label=...) written out by a caller,
\* the children in the order of the tree
RankTreeAsGiven(tree) ==
    IF Len(tree.children) = 0 THEN RankTree(None, None, <<>>, tree.labels[1])
    ELSE RankTree(None, None,
                  [i \in 1..Len(tree.children) |-> RankTreeAsGiven(tree.children[i])] \o <<>>,
                  None)

SwapAt(s, i) ==
    [j \in 1..Len(s) |-> IF j = i THEN s[i + 1] ELSE IF j = i + 1 THEN s[i] ELSE s[j]] \o <<>>

ReplaceAt(s, i, x) == [j \in 1..Len(s) |-> IF j = i THEN x ELSE s[j]] \o <<>>

RECURSIVE ChildSwaps(_)
\* the trees that differ from t by two neighbouring children of one node
ChildSwaps(t) ==
    {[children |-> SwapAt(t.children, i), labels |-> t.labels]
        : i \in 1..(Len(t.children) - 1)}
    \cup UNION {{[children |-> ReplaceAt(t.children, i, c), labels |-> t.labels]
                   : c \in ChildSwaps(t.children[i])} : i \in 1..Len(t.children)}

RECURSIVE UnaryInsertions(_)
\* the trees that differ from t by one more node, with one child
UnaryInsertions(t) ==
    {[children |-> <<t>>, labels |-> <<>>]}
    \cup UNION {{[children |-> ReplaceAt(t.children, i, c), labels |-> t.labels]
                   : c \in UnaryInsertions(t.children[i])} : i \in 1..Len(t.children)}

InitTsk ==
    /\ pc = "call"
    /\ call \in UNION {{[op |-> "to_tsk_tree", n |-> n, s |-> r[1], l |-> r[2]]
                           : r \in RankPairs(n)} : n \in 1..MaxTskLeaves}
    /\ ret = NoRet
    /\ gen = NoGen

\* t = RankTree.unrank((s, l), n); t.to_tsk_tree()
ToTskTree ==
    /\ pc = "call"
    /\ call.op = "to_tsk_tree"
    /\ ret' = [tree |-> RankTree_unrank(<<call.s, call.l>>, call.n)]
    /\ gen' = to_tsk_tree(ret'.tree)
    /\ pc' = "external"
    /\ UNCHANGED call

\* the same external tree with the children of a node in another order
Reorder ==
    /\ pc = "external"
    /\ \E r \in 1..Len(gen.roots) : \E t \in ChildSwaps(gen.roots[r]) :
          gen' = [roots |-> ReplaceAt(gen.roots, r, t)]
    /\ UNCHANGED <<pc, call, ret>>

\* an external tree with a node that has one child
AddUnaryNode ==
    /\ pc = "external"
    /\ Len(gen.roots) = 1
    /\ ~HasUnaryNode(gen.roots[1])
    /\ \E t \in UnaryInsertions(gen.roots[1]) : gen' = [roots |-> <<t>>]
    /\ UNCHANGED <<pc, call, ret>>

\* an external tree with several roots: the subtrees of a tree without its root
RemoveRoot ==
    /\ pc = "external"
    /\ Len(gen.roots) = 1
    /\ Len(gen.roots[1].children) >= 2
    /\ gen' = [roots |-> gen.roots[1].children]
    /\ UNCHANGED <<pc, call, ret>>

\* RankTree.from_tsk_tree(tree) and rank(tree)
FromTskTree ==
    /\ pc = "external"
    /\ ret' = [tree |-> ret.tree,
               reconstructed |-> RankTree_from_tsk_tree(gen),
               rank |-> tree_rank(gen)]
    /\ pc' = "ranked"
    /\ UNCHANGED <<call, gen>>

\* the same tree written as RankTree(children=[...]) by a caller, and its rank()
BuildRankTree ==
    /\ pc = "external"
    /\ Len(gen.roots) = 1
    /\ ret' = [tree |-> ret.tree,
               built |-> RankTreeAsGiven(gen.roots[1]),
               rank |-> [value |-> RankTree_rank(RankTreeAsGiven(gen.roots[1])).value]]
    /\ pc' = "built"
    /\ UNCHANGED <<call, gen>>

NextTsk ==
    \/ ToTskTree
    \/ Reorder
    \/ AddUnaryNode
    \/ RemoveRoot
    \/ FromTskTree
    \/ BuildRankTree

SpecTsk == InitTsk /\ [][NextTsk]_vars

\* C14: ranking an external tree that has more than one root fails with
\* ValueError, from from_tsk_tree and from rank(tree) alike, and gives no
\* rank; a tree with exactly one root is not rejected
C14_MultipleRootsRejected ==
    pc = "ranked" =>
        IF Len(gen.roots) # 1
        THEN ret.reconstructed = ValueError /\ ret.rank = ValueError
        ELSE ~IsError(ret.reconstructed) /\ ~IsError(ret.rank)

C14_Witness ==
    /\ pc = "ranked"
    /\ Len(gen.roots) = 2
    /\ Len(gen.roots[2].children) = 2
    /\ ret.rank = ValueError

\* C18: the external trees that differ from to_tsk_tree's by the order of the
\* children of their nodes get its rank from rank(tree), and from_tsk_tree
\* makes of each of them the same RankTree, which is canonical
C18_RankIgnoresChildOrder ==
    pc = "ranked" /\ Len(gen.roots) = 1 /\ ~HasUnaryNode(gen.roots[1]) =>
        LET same(first, first_rank) ==
                /\ ret.rank = first_rank
                /\ equal(ret.reconstructed, first)
                /\ is_canonical(ret.reconstructed)
        IN  same(RankTree_from_tsk_tree(to_tsk_tree(ret.tree)),
                 tree_rank(to_tsk_tree(ret.tree)))

C18_Witness ==
    /\ pc = "ranked"
    /\ call.n = MaxTskLeaves
    /\ Len(gen.roots) = 1
    /\ ~HasUnaryNode(gen.roots[1])
    /\ Len(gen.roots[1].children) = 2
    /\ gen.roots[1].children[1].children # <<>>
    /\ gen.roots[1].children[2].children = <<>>
    /\ ret.rank.value = <<call.s, call.l>>

\* C19: a canonical tree t with the labels 0..n-1 comes back from its
\* external tree: from_tsk_tree(t.to_tsk_tree()).equal(t), in whichever order
\* the external tree gives the children of a node, and t is canonical
C19_ToFromTskTree ==
    pc = "ranked" /\ Len(gen.roots) = 1 /\ ~HasUnaryNode(gen.roots[1]) =>
        /\ ~IsError(ret.reconstructed)
        /\ equal(ret.reconstructed, ret.tree)
        /\ equal(ret.tree, ret.reconstructed)
        /\ is_canonical(ret.tree)
        /\ ret.tree.labels = [i \in 1..call.n |-> i - 1]

C19_Witness ==
    /\ pc = "ranked"
    /\ call.n = MaxTskLeaves
    /\ gen = to_tsk_tree(ret.tree)
    /\ Len(ret.tree.children) = 2
    /\ equal(ret.reconstructed, ret.tree)

\* C22: a RankTree written with siblings that are not in canonical order is
\* refused: building it or asking for its rank raises, and no rank is returned
C22_MalformedTreeFailsFast ==
    pc = "built" /\ ~is_canonical(ret.built) => IsError(ret.rank)

\* C23: in a RankTree that from_tsk_tree makes of an external tree with one
\* root every node that is not a leaf has at least two children, and its
\* shape rank is one of 0 .. num_shapes(num_leaves) - 1
C23_NoUnaryNodes ==
    pc = "ranked" /\ Len(gen.roots) = 1 /\ ~IsError(ret.reconstructed) =>
        /\ ~HasUnaryNode(ret.reconstructed)
        /\ ret.reconstructed.shape_rank \in 0..(num_shapes(ret.reconstructed.num_leaves) - 1)

(***************************************************************************)
(* The cache of num_shapes as functools.lru_cache keeps it.  @lru_cache()  *)
(* is lru_cache(maxsize=128): the cache is the list of the stored calls,   *)
(* the least recently used first.  A call whose argument is stored moves   *)
(* its entry to the end and returns the stored value; any other call runs  *)
(* the body, whose calls of num_shapes go through the cache as well, and   *)
(* stores the result, in the place of the first entry once the cache holds *)
(* maxsize entries.                                                        *)
(***************************************************************************)
lru_cache_maxsize == 128

MaxCacheN == 3
MaxOthers == 128

\* the place of the entry of a call in the cache, 0 when it is not stored
cache_index(cache, n) ==
    IF \E i \in 1..Len(cache) : cache[i].key = n
    THEN CHOOSE i \in 1..Len(cache) : cache[i].key = n
    ELSE 0

lru_cache_hit(cache, i) ==
    SubSeq(cache, 1, i - 1) \o SubSeq(cache, i + 1, Len(cache)) \o <<cache[i]>>

lru_cache_miss(cache, n, value) ==
    Append(IF Len(cache) >= lru_cache_maxsize THEN Tail(cache) ELSE cache,
           [key |-> n, value |-> value])

RECURSIVE num_shapes_cached(_, _)
RECURSIVE num_shapes_sum_cached(_, _, _, _, _)
RECURSIVE num_tree_pairings_cached(_, _, _, _, _)

\* num_tree_pairings(part), its calls of num_shapes going through the cache
num_tree_pairings_cached(cache, groups, i, total, ran) ==
    IF i > Len(groups) THEN [cache |-> cache, value |-> total, ran |-> ran]
    ELSE LET next(r) == num_tree_pairings_cached(r.cache, groups, i + 1,
                            total * comb_with_replacement(r.value, Len(groups[i])),
                            ran \o r.ran)
         IN  next(num_shapes_cached(cache, groups[i][1]))

\* sum(num_tree_pairings(part) for part in partition(n))
num_shapes_sum_cached(cache, parts, i, total, ran) ==
    IF i > Len(parts) THEN [cache |-> cache, value |-> total, ran |-> ran]
    ELSE LET next(p) == num_shapes_sum_cached(p.cache, parts, i + 1,
                            total + p.value, ran \o p.ran)
         IN  next(num_tree_pairings_cached(cache, group_partition(parts[i]), 1, 1, <<>>))

\* the body of num_shapes
num_shapes_body(cache, n) ==
    IF n <= 1 THEN [cache |-> cache, value |-> n, ran |-> <<>>]
    ELSE num_shapes_sum_cached(cache, partition(n), 1, 0, <<>>)

\* num_shapes(n) through the wrapper of lru_cache: the cache after the call,
\* the value returned and the arguments the body ran with
num_shapes_cached(cache, n) ==
    LET hit(i) == [cache |-> lru_cache_hit(cache, i), value |-> cache[i].value,
                   ran |-> <<>>]
        miss(b) == [cache |-> lru_cache_miss(b.cache, n, b.value), value |-> b.value,
                    ran |-> Append(b.ran, n)]
    IN  IF cache_index(cache, n) > 0 THEN hit(cache_index(cache, n))
        ELSE miss(num_shapes_body(cache, n))

InitCache ==
    /\ pc = "call"
    /\ call \in {[op |-> "num_shapes", n |-> n] : n \in 1..MaxCacheN}
    /\ ret = NoRet
    /\ gen = [cache |-> <<>>, others |-> 0, bodies |-> 0]

CacheAfter(r, n, others) ==
    [cache |-> r.cache, others |-> others,
     bodies |-> gen.bodies + Len(SelectSeq(r.ran, LAMBDA k : k = n))]

\* num_shapes(n), for the first time or again
CallNumShapes ==
    /\ pc \in {"call", "cached"}
    /\ call.op = "num_shapes"
    /\ LET returned(r) == /\ ret' = [n |-> call.n, value |-> r.value]
                          /\ gen' = CacheAfter(r, call.n, gen.others)
       IN  returned(num_shapes_cached(gen.cache, call.n))
    /\ pc' = "cached"
    /\ UNCHANGED call

\* num_shapes called with an argument it was not called with before:
\* 0, -1, -2, ..., which the body answers at once
CallOther ==
    /\ pc = "cached"
    /\ call.op = "num_shapes"
    /\ gen.others < MaxOthers
    /\ LET returned(r) == /\ ret' = [n |-> 0 - gen.others, value |-> r.value]
                          /\ gen' = CacheAfter(r, call.n, gen.others + 1)
       IN  returned(num_shapes_cached(gen.cache, 0 - gen.others))
    /\ UNCHANGED <<pc, call>>

NextCache ==
    \/ CallNumShapes
    \/ CallOther

SpecCache == InitCache /\ [][NextCache]_vars

\* every stored value is the value of the recurrence, and a call returns it
CachedValuesAreNumShapes ==
    pc = "cached" =>
        /\ ret.value = num_shapes(ret.n)
        /\ Len(gen.cache) <= lru_cache_maxsize
        /\ \A i \in 1..Len(gen.cache) :
              gen.cache[i].value = num_shapes(gen.cache[i].key)

\* C24: the cache of num_shapes only grows: once num_shapes(n) has been
\* computed its entry stays in the cache whatever calls of num_shapes follow,
\* and the body never runs for n a second time
C24_CacheOnlyGrows ==
    pc = "cached" =>
        /\ cache_index(gen.cache, call.n) > 0
        /\ gen.bodies = 1
====
